---- MODULE Spec2Model ----
(***************************************************************************)
(* Verification model of scrudge_orm: the prefetch engine of QuerySet and  *)
(* of the serializers, the batched bulk operations and the upsert of the   *)
(* managers, the relation resolver and the cursor paginator.               *)
(*                                                                         *)
(* Every component has its own group of variables and its own              *)
(* specification; the variables of the other groups stay at their initial  *)
(* value under a specification that does not use them.                     *)
(***************************************************************************)
EXTENDS Integers, Sequences, FiniteSets, TLC

(***************************************************************************)
(* Shared helpers                                                          *)
(***************************************************************************)

\* Python's None, as a value of an integer column
NoneVal == -1

Range(s) == {s[i] : i \in DOMAIN s}

\* all orders in which the rows of S can be returned by a query that has no
\* ORDER BY clause
Orderings(S) ==
    {s \in [1..Cardinality(S) -> S] : \A i, j \in 1..Cardinality(S) : s[i] = s[j] => i = j}

Min(a, b) == IF a < b THEN a ELSE b

(***************************************************************************)
(* STATE                                                                   *)
(***************************************************************************)

\* backends/patched_transaction.py: the Counter of open transactions per backend
VARIABLES ON_TRANSACTION

\* the prefetch engine
VARIABLES
    pfPath,          \* "queryset": QuerySet.prefetch_related; "serializer": _serialize_common
    pfRoots,         \* key column value of every row of the root result
    pfTargets,       \* relation -> rows of its target table
    pfPhase,         \* "root", "run", "done", "raised"
    pfMode,          \* "none", "seq" (await one by one), "gather"
    pfTask,          \* relation -> "none", "pending", "inflight", "done", "failed"
    pfAttr,          \* root index -> relation -> [isset, val]: the relation attribute
    pfRecords,       \* relation -> key -> root indices (records_by_related_fields)
    pfSent,          \* relation -> number of secondary queries sent
    pfSentKeys,      \* relation -> IN-list of the secondary query
    pfLate           \* relations stitched after the prefetch has raised

pfVars == <<pfPath, pfRoots, pfTargets, pfPhase, pfMode, pfTask, pfAttr, pfRecords,
            pfSent, pfSentKeys, pfLate>>

\* the bulk operations
VARIABLES
    bkOp,        \* "bulk_insert", "bulk_update", "bulk_update_or_create"
    bkUpdate,    \* the update flag of bulk_update_or_create
    bkRefresh,   \* refresh_auto_fields of bulk_insert
    bkData,      \* the input objects
    bkBatch,     \* batch_size
    bkTable,     \* rows of the table as the connection sees them
    bkSnapshot,  \* rows of the table when the transaction was entered
    bkNextId,    \* the sequence behind the primary key
    bkI,         \* the loop variable i of range(0, len(data), batch_size)
    bkStmts,     \* the statements sent so far: the batch each one carries
    bkInserted,  \* inserted_objects: the rows returned so far
    bkObjIds,    \* the primary key attribute of every input object
    bkPhase,     \* "call", "tx", "inflight", "unwind", "done", "raised"
    bkFailedAt   \* number of the statement that failed, 0 if none

bkVars == <<bkOp, bkUpdate, bkRefresh, bkData, bkBatch, bkTable, bkSnapshot, bkNextId,
            bkI, bkStmts, bkInserted, bkObjIds, bkPhase, bkFailedAt>>

\* the upsert operations of PostgresManager
VARIABLES
    upDecls,     \* the unique constraints the table declares
    upDict,      \* what get_table_unique_constraints_fields returns for the table
    upOnUpdate,  \* whether the plain column v has an onupdate default
    upTable,     \* rows of the table
    upNextId,    \* the sequence behind the primary key
    upPhase,     \* "idle", "inflight"
    upCall,      \* arguments of the call in progress / of the last call
    upTarget,    \* its conflict target: [kind, fields, where, candidates]
    upOutcome,   \* how the last call ended: "none", "ok", "ambiguous", "failed"
    upPrev,      \* the call before it: [call, target, outcome, table]
    upCalls,     \* number of calls made
    upSent       \* number of statements sent

upVars == <<upDecls, upDict, upOnUpdate, upTable, upNextId, upPhase, upCall, upTarget, upOutcome,
            upPrev, upCalls, upSent>>

\* find_foreign_key_relation
VARIABLES
    fkForeignKeys,  \* from_table.foreign_keys, in the iteration order of the set
    fkCache,        \* the lru_cache: to_table -> cached column pair, or NoPair
    fkLast,         \* the last call: [to, outcome, pair]
    fkSeen,         \* to_table -> the outcomes its calls have had
    fkCalls         \* number of calls made

fkVars == <<fkForeignKeys, fkCache, fkLast, fkSeen, fkCalls>>

\* QuerySetPaginator
VARIABLES
    pgRows,        \* rows of the paginated table: [id, f], f the pagination field
    pgOrderDesc,   \* order_desc
    pgIsIncrease,  \* is_increase
    pgLimit,       \* limit
    pgStart,       \* start_pagination_value of the first page (NoneVal for None)
    pgCursor,      \* start_pagination_value of the page in progress
    pgPhase,       \* "new", "inflight", "returned"
    pgResults,     \* what the paginated query returned
    pgPage,        \* final_results of the last page
    pgNext,        \* next_pagination_value of the last page (NoneVal for None)
    pgSeen,        \* rows returned on some page so far
    pgPages        \* number of pages requested

pgVars == <<pgRows, pgOrderDesc, pgIsIncrease, pgLimit, pgStart, pgCursor, pgPhase,
            pgResults, pgPage, pgNext, pgSeen, pgPages>>

\* filter / exclude on two QuerySets over the same base query
VARIABLES
    cdCondition,  \* the condition X passed to both calls
    cdFilterQs,   \* the QuerySet filter(X) is called on: [phase, error, where, rows]
    cdExcludeQs,  \* the QuerySet exclude(X) is called on
    cdSent        \* number of statements sent

cdVars == <<cdCondition, cdFilterQs, cdExcludeQs, cdSent>>

\* one QuerySet instance and the builder calls made on it
VARIABLES
    qs,        \* the fields of the QuerySet
    qsPhase,   \* "building", "compiled" (awaited, statement in flight), "executed"
    qsBefore,  \* its fields and phase before the last builder call
    qsLast,    \* the last builder call: [call, outcome]
    qsShape,   \* "count" / "exists" once that call has been made, "" before
    qsCalls,   \* number of builder calls made
    qsSent     \* number of statements sent

qsVars == <<qs, qsPhase, qsBefore, qsLast, qsShape, qsCalls, qsSent>>

\* two QuerySets given the same filter / exclude, order_by and limit calls
VARIABLES
    cmPlan,     \* the calls: [filters, order_bys, limit]
    cmQs,       \* the two QuerySets
    cmDone,     \* per QuerySet the calls made so far: [filters, order_bys, limit]
    cmPhase,    \* per QuerySet "building", "compiled", "executed"
    cmResults   \* per QuerySet the row sequences its statement can return

cmVars == <<cmPlan, cmQs, cmDone, cmPhase, cmResults>>

\* one model instance and the querysets of its relations
VARIABLES
    raDict,       \* the instance's __dict__: attribute name -> slot
    raAwaiting,   \* the relations whose <name>__qs queryset is being awaited
    raCompleted,  \* per relation the result of its last completed await
    raLast        \* the last attribute read: [item, outcome, completed]

raVars == <<raDict, raAwaiting, raCompleted, raLast>>

\* the transactions of the backends
VARIABLES
    txOpen,   \* per backend the number of its transactions that are open
    txLast    \* the last step: [op, backend, before], before = is_on_transaction() per backend

txVars == <<txOpen, txLast>>

\* one bulk_update / update_or_create / bulk_update_or_create call with set functions
VARIABLES
    sfOnUpdate,  \* column v has an onupdate default
    sfTable,     \* the rows of the table: [id, k, v]
    sfCall,      \* the call: [op, data, setfn]
    sfBefore,    \* the table when the statement was sent
    sfPhase,     \* "idle", "inflight", "done"
    sfOutcome    \* "none", "ok", "failed"

sfVars == <<sfOnUpdate, sfTable, sfCall, sfBefore, sfPhase, sfOutcome>>

\* one values_dict QuerySet and its RawQuerySet
VARIABLES
    vdCall,     \* the values_dict call: [key_fields, field_names, flat]
    vdPhase,    \* "new", "built", "inflight", "returned"
    vdResults,  \* the rows pool.fetch_all returned, in result order
    vdParsed    \* parsed_results: the dictionary, as entries [key, value, row] in insertion order

vdVars == <<vdCall, vdPhase, vdResults, vdParsed>>

\* one update or delete statement built on a filtered QuerySet
VARIABLES
    udOnUpdate,  \* column a has an onupdate default
    udTable,     \* the rows of the table: [id, a, b]
    udCall,      \* the call: [op, condition, value]
    udQs,        \* the QuerySet: [where_conditions, query]
    udBefore,    \* the table when the statement was sent
    udPhase,     \* "new", "built", "inflight", "returned", "checked"
    udExists     \* what filter(X).exists() returned after the statement

udVars == <<udOnUpdate, udTable, udCall, udQs, udBefore, udPhase, udExists>>

\* asyncio tasks that open transactions and read the transaction state
VARIABLES
    ctOpen,  \* task -> backend -> transactions the task has open
    ctRead   \* the last is_on_transaction() call: [task, backend, open, value]

ctVars == <<ctOpen, ctRead>>

\* coroutines calling operations of one backend whose pool is not connected
VARIABLES
    cnPc,           \* coroutine -> "idle", "waiting", "connecting", "done"
    cnOp,           \* coroutine -> the operation it called
    cnLock,         \* _connect_lock: [created, holder, waiters]
    cnIsConnected,  \* pool.is_connected
    cnConnects,     \* the number of times pool.connect was invoked
    cnSent          \* what reached the pool: [coroutine, op, connected]

cnVars == <<cnPc, cnOp, cnLock, cnIsConnected, cnConnects, cnSent>>

\* two concurrent get_or_create / create_or_nothing calls with one key
VARIABLES
    gcDecls,   \* the unique constraint of the model
    gcOp,      \* the method both coroutines call
    gcKey,     \* the value of the unique column k in both calls
    gcTable,   \* the rows of the table
    gcNextId,  \* the next primary key the database assigns
    gcPc,      \* coroutine -> "idle", "insert", "get", "done"
    gcValue,   \* coroutine -> the value of column v in its call
    gcResult   \* coroutine -> [row, created] returned by its call

gcVars == <<gcDecls, gcOp, gcKey, gcTable, gcNextId, gcPc, gcValue, gcResult>>

\* a serializer with joined relations serializing a QuerySet
VARIABLES
    szFields,     \* declared joined relation -> its serializer has relations of its own
    szRows,       \* the rows of the root table: relation -> foreign key value
    szPhase,      \* "new", "root", "secondary", "done"
    szJoined,     \* the relations given to select_related on the root query
    szPending,    \* the relations whose secondary query is in flight
    szSecondary   \* relation -> secondary queries issued for it

szVars == <<szFields, szRows, szPhase, szJoined, szPending, szSecondary>>

vars == <<ON_TRANSACTION, pfVars, bkVars, upVars, fkVars, pgVars, cdVars, qsVars, cmVars, raVars, txVars, sfVars, vdVars, udVars, ctVars, cnVars, gcVars, szVars>>

\* what the actions of one component leave alone
pfOthers == <<bkVars, upVars, fkVars, pgVars, cdVars, qsVars, cmVars, raVars, txVars, sfVars, vdVars, udVars, ctVars, cnVars, gcVars, szVars>>
bkOthers == <<pfVars, upVars, fkVars, pgVars, cdVars, qsVars, cmVars, raVars, txVars, sfVars, vdVars, udVars, ctVars, cnVars, gcVars, szVars>>
upOthers == <<ON_TRANSACTION, pfVars, bkVars, fkVars, pgVars, cdVars, qsVars, cmVars, raVars, txVars, sfVars, vdVars, udVars, ctVars, cnVars, gcVars, szVars>>
fkOthers == <<ON_TRANSACTION, pfVars, bkVars, upVars, pgVars, cdVars, qsVars, cmVars, raVars, txVars, sfVars, vdVars, udVars, ctVars, cnVars, gcVars, szVars>>
pgOthers == <<ON_TRANSACTION, pfVars, bkVars, upVars, fkVars, cdVars, qsVars, cmVars, raVars, txVars, sfVars, vdVars, udVars, ctVars, cnVars, gcVars, szVars>>
cdOthers == <<ON_TRANSACTION, pfVars, bkVars, upVars, fkVars, pgVars, qsVars, cmVars, raVars, txVars, sfVars, vdVars, udVars, ctVars, cnVars, gcVars, szVars>>
qsOthers == <<ON_TRANSACTION, pfVars, bkVars, upVars, fkVars, pgVars, cdVars, cmVars, raVars, txVars, sfVars, vdVars, udVars, ctVars, cnVars, gcVars, szVars>>
cmOthers == <<ON_TRANSACTION, pfVars, bkVars, upVars, fkVars, pgVars, cdVars, qsVars, raVars, txVars, sfVars, vdVars, udVars, ctVars, cnVars, gcVars, szVars>>
raOthers == <<ON_TRANSACTION, pfVars, bkVars, upVars, fkVars, pgVars, cdVars, qsVars, cmVars, txVars, sfVars, vdVars, udVars, ctVars, cnVars, gcVars, szVars>>
txOthers == <<pfVars, bkVars, upVars, fkVars, pgVars, cdVars, qsVars, cmVars, raVars, sfVars, vdVars, udVars, ctVars, cnVars, gcVars, szVars>>
sfOthers == <<ON_TRANSACTION, pfVars, bkVars, upVars, fkVars, pgVars, cdVars, qsVars, cmVars, raVars, txVars, vdVars, udVars, ctVars, cnVars, gcVars, szVars>>
vdOthers == <<ON_TRANSACTION, pfVars, bkVars, upVars, fkVars, pgVars, cdVars, qsVars, cmVars, raVars, txVars, sfVars, udVars, ctVars, cnVars, gcVars, szVars>>
udOthers == <<ON_TRANSACTION, pfVars, bkVars, upVars, fkVars, pgVars, cdVars, qsVars, cmVars, raVars, txVars, sfVars, vdVars, ctVars, cnVars, gcVars, szVars>>
ctOthers == <<pfVars, bkVars, upVars, fkVars, pgVars, cdVars, qsVars, cmVars, raVars, txVars, sfVars, vdVars, udVars, cnVars, gcVars, szVars>>
cnOthers == <<ON_TRANSACTION, pfVars, bkVars, upVars, fkVars, pgVars, cdVars, qsVars, cmVars, raVars, txVars, sfVars, vdVars, udVars, ctVars, gcVars, szVars>>
gcOthers == <<ON_TRANSACTION, pfVars, bkVars, upVars, fkVars, pgVars, cdVars, qsVars, cmVars, raVars, txVars, sfVars, vdVars, udVars, ctVars, cnVars, szVars>>
szOthers == <<ON_TRANSACTION, pfVars, bkVars, upVars, fkVars, pgVars, cdVars, qsVars, cmVars, raVars, txVars, sfVars, vdVars, udVars, ctVars, cnVars, gcVars>>

(***************************************************************************)
(* PREFETCH ENGINE                                                         *)
(* query/queryset.py, serialization/base_serializers.py,                   *)
(* serialization/base_serializer_fields.py, managers/base.py               *)
(***************************************************************************)

\* bounds of the prefetch model
MaxRoots == 2
MaxKey == 1

\* the backends of the process; the root model's manager uses RootPool
Backends == {"b1", "b2"}
RootPool == "b1"

\* the prefetched to-many relations of the root model, in the insertion order
\* of QuerySet.prefetch_field_columns / of the serializer's prefetch_models
RelOrder == <<"r1", "r2">>
Rels == Range(RelOrder)

\* values of the root column the relations refer to (None included)
RootKeys == {NoneVal} \cup (0..MaxKey)

\* rows of a target table: primary key and foreign key to the root table
TargetRow(id, fk) == [id |-> id, fk |-> fk]

\* the target tables the model draws from; foreign key MaxKey + 1 is a row that
\* refers to a root row outside of the root result
TargetTables ==
    { {},
      {TargetRow(1, 0)},
      {TargetRow(1, 1), TargetRow(2, 1)},
      {TargetRow(1, 0), TargetRow(2, 1), TargetRow(3, MaxKey + 1)} }

\* DatabaseBackend.is_on_transaction: bool(transaction_counters[id(self)])
is_on_transaction(counter, backend) == counter[backend] # 0

\* _serialize_common: any(ON_TRANSACTION.get().values())
is_any_backend_on_transaction(counter) == \E b \in Backends : counter[b] # 0

\* QuerySet._process_add_prefetch_tables_data: "if self.manager.pool.is_on_transaction()"
QuerySetRunsSequentiallyMutant(counter) == FALSE
QuerySetRunsSequentially(counter) == is_on_transaction(counter, RootPool)

\* _serialize_common: "if is_any_backend_on_transaction"
SerializerRunsSequentially(counter) == is_any_backend_on_transaction(counter)

\* related_field.get_default_value() of a to-many relation: a fresh empty list
get_default_value == [isset |-> TRUE, val |-> <<>>]

Unset == [isset |-> FALSE, val |-> <<>>]

\* root indices whose key is k, in result order
RootsWithKey(roots, k) ==
    SelectSeq([i \in 1..Len(roots) |-> i], LAMBDA i : roots[i] = k)

\* queryset.py 248-261: a root row is registered under its key unless the key is None
QuerySetRegisters(key) == key # NoneVal

\* base_serializers.py 271: "elif not obj[current_model_attr_name]: continue"
\* (None and 0 are both falsy)
SerializerRegisters(key) == key # NoneVal /\ key # 0

\* records_by_related_fields[relation]: key -> registered root rows
Registers(path, key) ==
    IF path = "queryset" THEN QuerySetRegisters(key) ELSE SerializerRegisters(key)

RecordsFor(roots, path) ==
    [k \in RootKeys |-> IF Registers(path, k) THEN RootsWithKey(roots, k) ELSE <<>>]

\* the keys of the objs_by_relation_attr dictionary: what the IN-list iterates
DictKeys(rec) == {k \in DOMAIN rec : rec[k] # <<>>}

\* obj[prefetch_field_root_model_name].append(row) for every obj in idxs
RECURSIVE AppendToObjs(_, _, _, _)
AppendToObjs(attr, idxs, rel, row) ==
    IF idxs = <<>> THEN attr
    ELSE LET i == Head(idxs)
             appended == [attr EXCEPT ![i][rel].val = Append(@, row.id)]
         IN AppendToObjs(appended, Tail(idxs), rel, row)

\* PrefetchFieldOneToMany.serialize_prefetched_data: every secondary row is
\* appended to the root rows registered under the row's foreign key
RECURSIVE serialize_prefetched_dataMutant(_, _, _, _)
serialize_prefetched_dataMutant(attr, rows, rel, rec) ==
    IF rows = <<>> THEN attr
    ELSE serialize_prefetched_dataMutant(
             AppendToObjs(attr, [i \in 1..Len(attr) |-> i], rel, Head(rows)),
             Tail(rows), rel, rec)

RECURSIVE serialize_prefetched_data(_, _, _, _)
serialize_prefetched_data(attr, rows, rel, rec) ==
    IF rows = <<>> THEN attr
    ELSE LET row == Head(rows)
             objs == IF row.fk \in DOMAIN rec THEN rec[row.fk] ELSE <<>>
         IN serialize_prefetched_data(AppendToObjs(attr, objs, rel, row), Tail(rows), rel, rec)

\* DatabaseManager.get_prefetch_related_queryset_o2m: rows of the target table
\* whose foreign key is in the IN-list
get_prefetch_related_queryset_o2m(targets, keys) == {row \in targets : row.fk \in keys}

InitPrefetch ==
    /\ pfPath \in {"queryset", "serializer"}
    /\ ON_TRANSACTION \in [Backends -> 0..1]
    /\ pfRoots \in UNION {[1..n -> RootKeys] : n \in 0..MaxRoots}
    /\ pfTargets \in [Rels -> TargetTables]
    /\ pfPhase = "root"
    /\ pfMode = "none"
    /\ pfTask = [r \in Rels |-> "none"]
    /\ pfAttr = [i \in 1..Len(pfRoots) |-> [r \in Rels |-> Unset]]
    /\ pfRecords = [r \in Rels |-> [k \in RootKeys |-> <<>>]]
    /\ pfSent = [r \in Rels |-> 0]
    /\ pfSentKeys = [r \in Rels |-> {}]
    /\ pfLate = {}

IdlePrefetch ==
    /\ pfPath = "queryset"
    /\ pfRoots = <<>>
    /\ pfTargets = [r \in Rels |-> {}]
    /\ pfPhase = "root"
    /\ pfMode = "none"
    /\ pfTask = [r \in Rels |-> "none"]
    /\ pfAttr = <<>>
    /\ pfRecords = [r \in Rels |-> [k \in RootKeys |-> <<>>]]
    /\ pfSent = [r \in Rels |-> 0]
    /\ pfSentKeys = [r \in Rels |-> {}]
    /\ pfLate = {}

\* QuerySet._process_add_prefetch_tables_data up to its first await: the early
\* return on an empty root result, the defaults, the registration of the root
\* rows under their keys, one coroutine per prefetched relation and the choice
\* between awaiting them one by one and gather
process_add_prefetch_tables_data ==
    /\ UNCHANGED pfOthers
    /\ pfPath = "queryset"
    /\ pfPhase = "root"
    /\ IF Len(pfRoots) = 0
       THEN /\ pfPhase' = "done"
            /\ UNCHANGED <<pfMode, pfTask, pfAttr, pfRecords>>
       ELSE /\ pfAttr' = [i \in 1..Len(pfRoots) |-> [r \in Rels |-> get_default_value]]
            /\ pfRecords' = [r \in Rels |-> RecordsFor(pfRoots, "queryset")]
            /\ pfTask' = [r \in Rels |-> "pending"]
            /\ pfMode' = IF QuerySetRunsSequentially(ON_TRANSACTION) THEN "seq" ELSE "gather"
            /\ pfPhase' = "run"
    /\ UNCHANGED <<ON_TRANSACTION, pfPath, pfRoots, pfTargets, pfSent, pfSentKeys, pfLate>>

\* BaseModelSerializer._serialize_common up to its first await: a coroutine is
\* made only for a relation under which at least one root row was registered
serialize_common ==
    /\ UNCHANGED pfOthers
    /\ pfPath = "serializer"
    /\ pfPhase = "root"
    /\ IF Len(pfRoots) = 0
       THEN /\ pfPhase' = "done"
            /\ UNCHANGED <<pfMode, pfTask, pfAttr, pfRecords>>
       ELSE LET rec == RecordsFor(pfRoots, "serializer")
                tasks == IF DictKeys(rec) = {} THEN {} ELSE Rels
            IN /\ pfAttr' = [i \in 1..Len(pfRoots) |-> [r \in Rels |-> get_default_value]]
               /\ pfRecords' = [r \in Rels |-> rec]
               /\ pfTask' = [r \in Rels |-> IF r \in tasks THEN "pending" ELSE "none"]
               /\ pfMode' = IF SerializerRunsSequentially(ON_TRANSACTION) THEN "seq"
                            ELSE IF tasks # {} THEN "gather" ELSE "none"
               /\ pfPhase' = IF tasks = {} THEN "done" ELSE "run"
    /\ UNCHANGED <<ON_TRANSACTION, pfPath, pfRoots, pfTargets, pfSent, pfSentKeys, pfLate>>

\* position of a relation in the list of coroutines
RelIndex(r) == CHOOSE i \in 1..Len(RelOrder) : RelOrder[i] = r

\* "for coro in tasks: await coro": a coroutine starts when all before it are done;
\* "await gather(*tasks)": every coroutine is a task of its own, and a task keeps
\* running after gather has raised the exception of another one
MayStart(r) ==
    /\ pfTask[r] = "pending"
    /\ \/ /\ pfMode = "seq"
          /\ pfPhase = "run"
          /\ \A q \in Rels : RelIndex(q) < RelIndex(r) => pfTask[q] \in {"done", "none"}
       \/ /\ pfMode = "gather"
          /\ pfPhase \in {"run", "raised"}

\* PrefetchFieldOneToMany.serialize: the secondary query of a relation is sent
SendSecondary(r) ==
    /\ UNCHANGED pfOthers
    /\ MayStart(r)
    /\ pfTask' = [pfTask EXCEPT ![r] = "inflight"]
    /\ pfSent' = [pfSent EXCEPT ![r] = @ + 1]
    /\ pfSentKeys' = [pfSentKeys EXCEPT ![r] = DictKeys(pfRecords[r])]
    /\ UNCHANGED <<ON_TRANSACTION, pfPath, pfRoots, pfTargets, pfPhase, pfMode, pfAttr,
                   pfRecords, pfLate>>

AllFinished(task) == \A r \in Rels : task[r] \in {"done", "none"}

\* the secondary query returns its rows and the callback stitches them
SecondaryReturns(r) ==
    /\ UNCHANGED pfOthers
    /\ pfTask[r] = "inflight"
    /\ \E rows \in Orderings(get_prefetch_related_queryset_o2m(pfTargets[r], pfSentKeys[r])) :
           pfAttr' = serialize_prefetched_data(pfAttr, rows, r, pfRecords[r])
    /\ pfTask' = [pfTask EXCEPT ![r] = "done"]
    /\ pfLate' = IF pfPhase = "raised" THEN pfLate \cup {r} ELSE pfLate
    /\ pfPhase' = IF pfPhase = "run" /\ AllFinished(pfTask') THEN "done" ELSE pfPhase
    /\ UNCHANGED <<ON_TRANSACTION, pfPath, pfRoots, pfTargets, pfMode, pfRecords, pfSent,
                   pfSentKeys>>

\* the backend raises for the secondary query: the exception leaves the
\* coroutine and, through the for loop or gather, the prefetch
SecondaryFails(r) ==
    /\ UNCHANGED pfOthers
    /\ pfTask[r] = "inflight"
    /\ pfTask' = [pfTask EXCEPT ![r] = "failed"]
    /\ pfPhase' = IF pfPhase = "run" THEN "raised" ELSE pfPhase
    /\ UNCHANGED <<ON_TRANSACTION, pfPath, pfRoots, pfTargets, pfMode, pfAttr, pfRecords,
                   pfSent, pfSentKeys, pfLate>>

NextPrefetch ==
    \/ process_add_prefetch_tables_data
    \/ serialize_common
    \/ \E r \in Rels : SendSecondary(r)
    \/ \E r \in Rels : SecondaryReturns(r)
    \/ \E r \in Rels : SecondaryFails(r)

(***************************************************************************)
(* BULK OPERATIONS                                                         *)
(* managers/base.py (bulk_insert, bulk_insert_raw, bulk_update),           *)
(* managers/postgres/manager.py (bulk_update_or_create),                   *)
(* backends/patched_transaction.py                                         *)
(***************************************************************************)

\* bounds of the bulk model
MaxObjs == 3
MaxBatch == 2
MaxUniq == 3

\* the value every input object carries in its plain column, and the value of
\* the row the table may hold before the call
NewValue == 1
OldValue == 0

\* an input object: unique column k and plain column v
BulkObject(k) == [k |-> k, v |-> NewValue]

\* a table row: generated primary key, unique column, plain column, and (for
\* the claims only) the input position the row was inserted from, 0 for a row
\* that was there before the call
TableRow(id, k, v, src) == [id |-> id, k |-> k, v |-> v, src |-> src]

InitialTables == { {}, {TableRow(1, 1, OldValue, 0)} }

\* the call is made outside of any transaction or inside one of the caller
InitBulk ==
    /\ ON_TRANSACTION \in {[b \in Backends |-> 0],
                           [b \in Backends |-> IF b = RootPool THEN 1 ELSE 0]}
    /\ bkOp \in {"bulk_insert", "bulk_update", "bulk_update_or_create"}
    /\ bkUpdate \in BOOLEAN
    /\ bkRefresh \in BOOLEAN
    /\ bkData \in UNION {[1..n -> {BulkObject(k) : k \in 1..MaxUniq}] : n \in 0..MaxObjs}
    /\ bkBatch \in 1..MaxBatch
    /\ bkTable \in InitialTables
    /\ bkSnapshot = bkTable
    /\ bkNextId = 2
    /\ bkI = 0
    /\ bkStmts = <<>>
    /\ bkInserted = <<>>
    /\ bkObjIds = [j \in 1..Len(bkData) |-> NoneVal]
    /\ bkPhase = "call"
    /\ bkFailedAt = 0

IdleBulk ==
    /\ bkOp = "bulk_insert"
    /\ bkUpdate = FALSE
    /\ bkRefresh = FALSE
    /\ bkData = <<>>
    /\ bkBatch = 1
    /\ bkTable = {}
    /\ bkSnapshot = {}
    /\ bkNextId = 2
    /\ bkI = 0
    /\ bkStmts = <<>>
    /\ bkInserted = <<>>
    /\ bkObjIds = <<>>
    /\ bkPhase = "call"
    /\ bkFailedAt = 0

\* PatchedTransaction.__aenter__ / __aexit__: the counter of the backend
TransactionEntered(counter, backend) == [counter EXCEPT ![backend] = @ + 1]
TransactionExited(counter, backend) == [counter EXCEPT ![backend] = @ - 1]

\* bulk_insert: "if not data: return []"; bulk_update: "if not update_data: return []";
\* bulk_update_or_create has no such return and opens the transaction for no batch
ReturnsBeforeTransaction ==
    bkOp \in {"bulk_insert", "bulk_update"} /\ Len(bkData) = 0

\* the call up to the entry of "async with await self.pool.transaction()"
BulkCall ==
    /\ UNCHANGED bkOthers
    /\ bkPhase = "call"
    /\ IF ReturnsBeforeTransaction
       THEN /\ bkPhase' = "done"
            /\ UNCHANGED <<ON_TRANSACTION, bkSnapshot>>
       ELSE /\ ON_TRANSACTION' = TransactionEntered(ON_TRANSACTION, RootPool)
            /\ bkSnapshot' = bkTable
            /\ bkPhase' = "tx"
    /\ UNCHANGED <<bkOp, bkUpdate, bkRefresh, bkData, bkBatch, bkTable, bkNextId, bkI,
                   bkStmts, bkInserted, bkObjIds, bkFailedAt>>

\* insert_objects[i : i + batch_size], as positions of the input
BatchLast(i, n, size) == Min(i + size, n)

\* one iteration of the loop up to its await: the statement of the batch is sent
BulkSendBatch ==
    /\ UNCHANGED bkOthers
    /\ bkPhase = "tx"
    /\ bkI < Len(bkData)
    /\ bkStmts' = Append(bkStmts, [first |-> bkI + 1,
                                   last |-> BatchLast(bkI, Len(bkData), bkBatch)])
    /\ bkPhase' = "inflight"
    /\ UNCHANGED <<ON_TRANSACTION, bkOp, bkUpdate, bkRefresh, bkData, bkBatch, bkTable,
                   bkSnapshot, bkNextId, bkI, bkInserted, bkObjIds, bkFailedAt>>

\* the input positions of the statement in flight
CurrentBatch == bkStmts[Len(bkStmts)].first .. bkStmts[Len(bkStmts)].last

UniqueValues(table) == {row.k : row \in table}

\* two objects of the batch carry the same unique value
BatchHasDuplicates(batch) ==
    \E a, b \in batch : a # b /\ bkData[a].k = bkData[b].k

\* the statement violates a constraint and must fail: INSERT of a unique value
\* that exists; ON CONFLICT DO UPDATE that would touch one row twice
MustFail(batch) ==
    \/ /\ bkOp = "bulk_insert"
       /\ \/ BatchHasDuplicates(batch)
          \/ \E j \in batch : bkData[j].k \in UniqueValues(bkTable)
    \/ /\ bkOp = "bulk_update_or_create"
       /\ bkUpdate
       /\ BatchHasDuplicates(batch)

\* position of input j in its batch, counting from 0
Offset(batch, j) == Cardinality({q \in batch : q < j})

\* the first object of the batch that carries the unique value of object j
FirstWithSameUnique(batch, j) ==
    CHOOSE q \in batch : /\ bkData[q].k = bkData[j].k
                         /\ \A p \in batch : bkData[p].k = bkData[j].k => q <= p

\* rows an INSERT of the batch adds: one per object, keys from the sequence in
\* the order of the VALUES list
InsertedRows(batch, nextId) ==
    {TableRow(nextId + Offset(batch, j), bkData[j].k, bkData[j].v, j) : j \in batch}

\* the effect of the statement on the table
StatementEffect(batch) ==
    CASE bkOp = "bulk_insert" ->
            bkTable \cup InsertedRows(batch, bkNextId)
      [] bkOp = "bulk_update" ->
            {IF \E j \in batch : bkData[j].k = row.k
             THEN [row EXCEPT !.v = NewValue] ELSE row : row \in bkTable}
      [] OTHER ->
            LET fresh == {j \in batch : /\ bkData[j].k \notin UniqueValues(bkTable)
                                        /\ FirstWithSameUnique(batch, j) = j}
            IN {IF bkUpdate /\ \E j \in batch : bkData[j].k = row.k
                THEN [row EXCEPT !.v = NewValue] ELSE row : row \in bkTable}
               \cup {TableRow(bkNextId + Offset(fresh, j), bkData[j].k, bkData[j].v, j) :
                        j \in fresh}

\* the rows the statement returns: bulk_insert asks for the generated columns
\* when refresh_auto_fields is set; the rows come back in the order of the
\* VALUES list
ReturnedRows(batch) ==
    IF bkOp = "bulk_insert" /\ bkRefresh
    THEN [n \in 1..Cardinality(batch) |-> bkNextId + n - 1]
    ELSE <<>>

\* the statement returns: inserted_objects.extend(...), next iteration
BulkStatementReturns ==
    /\ UNCHANGED bkOthers
    /\ bkPhase = "inflight"
    /\ ~ MustFail(CurrentBatch)
    /\ bkTable' = StatementEffect(CurrentBatch)
    /\ bkNextId' = bkNextId + Cardinality(CurrentBatch)
    /\ bkInserted' = bkInserted \o ReturnedRows(CurrentBatch)
    /\ bkI' = bkI + bkBatch
    /\ bkPhase' = "tx"
    /\ UNCHANGED <<ON_TRANSACTION, bkOp, bkUpdate, bkRefresh, bkData, bkBatch, bkSnapshot,
                   bkStmts, bkObjIds, bkFailedAt>>

\* the statement raises (a violated constraint or any other backend error): the
\* exception leaves the loop
BulkStatementFailsMutant ==
    /\ UNCHANGED bkOthers
    /\ bkPhase = "inflight"
    /\ bkFailedAt' = Len(bkStmts)
    /\ bkI' = bkI + bkBatch
    /\ bkPhase' = "tx"
    /\ UNCHANGED <<ON_TRANSACTION, bkOp, bkUpdate, bkRefresh, bkData, bkBatch, bkTable,
                   bkSnapshot, bkNextId, bkStmts, bkInserted, bkObjIds>>

BulkStatementFails ==
    /\ UNCHANGED bkOthers
    /\ bkPhase = "inflight"
    /\ bkFailedAt' = Len(bkStmts)
    /\ bkPhase' = "unwind"
    /\ UNCHANGED <<ON_TRANSACTION, bkOp, bkUpdate, bkRefresh, bkData, bkBatch, bkTable,
                   bkSnapshot, bkNextId, bkI, bkStmts, bkInserted, bkObjIds>>

\* bulk_insert 160-163: setattr(data_as_list[index], k, v) for every returned row
WriteBackMutant(ids, inserted) ==
    [j \in DOMAIN ids |->
        IF j + 1 \in DOMAIN inserted THEN inserted[j + 1] ELSE ids[j]]
WriteBack(ids, inserted) ==
    [j \in DOMAIN ids |-> IF j \in DOMAIN inserted THEN inserted[j] ELSE ids[j]]

\* the loop is over: __aexit__ without exception commits, the counter goes
\* down, bulk_insert writes the returned values back
BulkCommit ==
    /\ UNCHANGED bkOthers
    /\ bkPhase = "tx"
    /\ bkI >= Len(bkData)
    /\ ON_TRANSACTION' = TransactionExited(ON_TRANSACTION, RootPool)
    /\ bkObjIds' = IF bkOp = "bulk_insert" /\ bkRefresh
                   THEN WriteBack(bkObjIds, bkInserted) ELSE bkObjIds
    /\ bkPhase' = "done"
    /\ UNCHANGED <<bkOp, bkUpdate, bkRefresh, bkData, bkBatch, bkTable, bkSnapshot,
                   bkNextId, bkI, bkStmts, bkInserted, bkFailedAt>>

\* __aexit__ with the exception: the transaction (or its savepoint) is rolled
\* back, the counter goes down, the exception reaches the caller
BulkRollback ==
    /\ UNCHANGED bkOthers
    /\ bkPhase = "unwind"
    /\ bkTable' = bkSnapshot
    /\ ON_TRANSACTION' = TransactionExited(ON_TRANSACTION, RootPool)
    /\ bkPhase' = "raised"
    /\ UNCHANGED <<bkOp, bkUpdate, bkRefresh, bkData, bkBatch, bkSnapshot, bkNextId, bkI,
                   bkStmts, bkInserted, bkObjIds, bkFailedAt>>

NextBulk ==
    \/ BulkCall
    \/ BulkSendBatch
    \/ BulkStatementReturns
    \/ BulkStatementFails
    \/ BulkCommit
    \/ BulkRollback

(***************************************************************************)
(* UPSERT AND CONFLICT TARGET                                              *)
(* managers/postgres/manager.py, utils/sqalchemy.py,                       *)
(* managers/set_functions.py                                               *)
(***************************************************************************)

\* bound of the upsert model
MaxCalls == 2

\* columns of the table: primary key, a nullable column k, a plain column v
PkColumn == "id"

\* Column(unique=True) and Meta.unique_indexes entries (fields, postgresql_where)
UniqueColumn(c) == [kind |-> "column", cols |-> <<c>>, where |-> "none"]
UniqueIndex(cols, where) == [kind |-> "index", cols |-> cols, where |-> where]

\* the declarations a schema of the model is made of
Declarations ==
    { UniqueColumn("k"),
      UniqueIndex(<<"k">>, "k > 1"),
      UniqueIndex(<<"k">>, "v > 1"),
      UniqueColumn("v") }

\* the value an onupdate default sets
OnUpdateArg == 9

\* values of the call arguments
UpsertKeys == {NoneVal, 1, 2}
UpsertValues == {1, 2}
SetFunctionNames == {"", "+"}
UpsertOps == {"update_or_create", "get_or_create"}

NoCall == [op |-> "", k |-> NoneVal, v |-> NoneVal, setfn |-> ""]
NoTarget == [kind |-> "none", fields |-> <<>>, where |-> "none", candidates |-> {}]

\* get_table_unique_constraints_fields: a dictionary from column tuple to the
\* WHERE part; the unique columns are entered first, then the unique indexes in
\* the iteration order of the set table.indexes, a later entry replacing an
\* earlier one with the same column tuple.  The result is the set of
\* dictionaries the iteration orders can produce.
get_table_unique_constraints_fields(decls) ==
    LET keys == {d.cols : d \in decls}
        indexes(key) == {d \in decls : d.kind = "index" /\ d.cols = key}
    IN {f \in [keys -> {"none"} \cup {d.where : d \in decls}] :
           \A key \in keys :
               IF indexes(key) = {} THEN f[key] = "none"
               ELSE \E d \in indexes(key) : f[key] = d.where}

InitUpsert ==
    /\ upDecls \in SUBSET Declarations
    /\ upDict \in get_table_unique_constraints_fields(upDecls)
    /\ upOnUpdate \in BOOLEAN
    /\ upTable = {}
    /\ upNextId = 1
    /\ upPhase = "idle"
    /\ upCall = NoCall
    /\ upTarget = NoTarget
    /\ upOutcome = "none"
    /\ upPrev = [call |-> NoCall, target |-> NoTarget, outcome |-> "none", table |-> {}]
    /\ upCalls = 0
    /\ upSent = 0

IdleUpsert ==
    /\ upDecls = {}
    /\ upDict = <<>>
    /\ upOnUpdate = FALSE
    /\ upTable = {}
    /\ upNextId = 1
    /\ upPhase = "idle"
    /\ upCall = NoCall
    /\ upTarget = NoTarget
    /\ upOutcome = "none"
    /\ upPrev = [call |-> NoCall, target |-> NoTarget, outcome |-> "none", table |-> {}]
    /\ upCalls = 0
    /\ upSent = 0

\* PostgresManager.get_table_unique_constraint on one such dictionary
get_table_unique_constraint(dict) ==
    IF DOMAIN dict = {}
    THEN [kind |-> "ok", fields |-> <<PkColumn>>, where |-> "none", candidates |-> {}]
    ELSE IF Cardinality(DOMAIN dict) > 1
    THEN [kind |-> "error", fields |-> <<>>, where |-> "none", candidates |-> DOMAIN dict]
    ELSE LET key == CHOOSE k \in DOMAIN dict : TRUE
         IN [kind |-> "ok", fields |-> key, where |-> dict[key], candidates |-> {}]

\* IncrementSetFunction.get_expression on a nullable column: coalesce(column, 0) + value
\* (NULL when the value is NULL)
IncrementSetFunction(existing, incoming) ==
    IF incoming = NoneVal THEN NoneVal
    ELSE (IF existing = NoneVal THEN 0 ELSE existing) + incoming

\* EQNotNULLSetFunction.get_expression: coalesce(value, column)
EQNotNULLSetFunctionMutant(existing, incoming) == incoming
EQNotNULLSetFunction(existing, incoming) ==
    IF incoming # NoneVal THEN incoming ELSE existing

\* set_functions.get(col.name): the call names a set function for column v only
set_func_name(setfn, c) == IF c = "v" THEN setfn ELSE ""

\* get_table_onupdate_defaults: the columns that have an onupdate default
get_table_onupdate_defaults(onupdate) == IF onupdate THEN {"v"} ELSE {}

\* get_on_conflict_update_data: the SET clause, column -> what it is set to;
\* key columns and the primary key are left out, the named set function
\* replaces the excluded value, the onupdate defaults replace both
get_on_conflict_update_dataMutant(setfn, fields, onupdate) ==
    LET cols == {c \in {PkColumn, "k", "v"} : c \notin Range(fields) /\ c # PkColumn}
    IN [c \in cols \cup get_table_onupdate_defaults(onupdate) |-> "keep"]
get_on_conflict_update_data(setfn, fields, onupdate) ==
    LET cols == {c \in {PkColumn, "k", "v"} : c \notin Range(fields) /\ c # PkColumn}
        plain == [c \in cols |->
                     IF set_func_name(setfn, c) # "" THEN set_func_name(setfn, c)
                     ELSE "excluded"]
        defaults == get_table_onupdate_defaults(onupdate)
    IN [c \in cols \cup defaults |-> IF c \in defaults THEN "onupdate" ELSE plain[c]]

\* the value a SET clause entry gives a column of the conflicting row
SetValue(how, existing, incoming) ==
    CASE how = "excluded" -> incoming
      [] how = "+" -> IncrementSetFunction(existing, incoming)
      [] how = "eq_not_null" -> EQNotNULLSetFunction(existing, incoming)
      [] how = "onupdate" -> OnUpdateArg
      [] OTHER -> existing

\* the database: unique indexes of the table, the primary key among them
TableIndexes(decls) == decls \cup {UniqueColumn(PkColumn)}

Satisfies(row, where) ==
    CASE where = "k > 1" -> row.k # NoneVal /\ row.k > 1
      [] where = "v > 1" -> row.v # NoneVal /\ row.v > 1
      [] OTHER -> TRUE

\* two rows collide in a unique index: equal non-null values, both in the index
Collide(a, b, index) ==
    /\ \A c \in Range(index.cols) : a[c] = b[c] /\ a[c] # NoneVal
    /\ Satisfies(a, index.where)
    /\ Satisfies(b, index.where)

\* ON CONFLICT (fields) WHERE where: the unique indexes the target names
Arbiters(decls, target) ==
    {index \in TableIndexes(decls) :
        /\ index.cols = target.fields
        /\ (index.where = "none" \/ index.where = target.where)}

UniqueHolds(decls, table) ==
    \A index \in TableIndexes(decls) :
        \A a, b \in table : (a # b) => ~ Collide(a, b, index)

\* the table after INSERT ... ON CONFLICT, or "failed" when the statement raises
UpsertEffect(decls, table, new, target, set, update) ==
    LET arbiters == Arbiters(decls, target)
        hit == {row \in table : \E index \in arbiters : Collide(row, new, index)}
        updated(row) ==
            [c \in DOMAIN row |->
                IF update /\ c \in DOMAIN set THEN SetValue(set[c], row[c], new[c])
                ELSE row[c]]
        after == IF hit = {} THEN table \cup {new}
                 ELSE {IF row \in hit THEN updated(row) ELSE row : row \in table}
    IN IF arbiters = {} \/ ~ UniqueHolds(decls, after) \/ Cardinality(after) < Cardinality(table)
       THEN [ok |-> FALSE, table |-> table]
       ELSE [ok |-> TRUE, table |-> after]

\* update_or_create / get_or_create up to the await of the statement: the
\* conflict target is derived, which raises for an ambiguous one
UpsertCall ==
    /\ UNCHANGED upOthers
    /\ upPhase = "idle"
    /\ upCalls < MaxCalls
    /\ upCalls' = upCalls + 1
    /\ upPrev' = [call |-> upCall, target |-> upTarget, outcome |-> upOutcome,
                  table |-> upTable]
    /\ \E op \in UpsertOps, k \in UpsertKeys, v \in UpsertValues, setfn \in SetFunctionNames :
          /\ (op # "update_or_create") => setfn = ""
          /\ upCall' = [op |-> op, k |-> k, v |-> v, setfn |-> setfn]
    /\ LET target == get_table_unique_constraint(upDict)
       IN /\ upTarget' = target
          /\ IF target.kind = "error"
             THEN /\ upOutcome' = "ambiguous"
                  /\ upPhase' = "idle"
                  /\ upSent' = upSent
             ELSE /\ upOutcome' = "none"
                  /\ upPhase' = "inflight"
                  /\ upSent' = upSent + 1
    /\ UNCHANGED <<upDecls, upDict, upOnUpdate, upTable, upNextId>>

\* the statement is executed
UpsertStatement ==
    /\ UNCHANGED upOthers
    /\ upPhase = "inflight"
    /\ LET new == [id |-> upNextId, k |-> upCall.k, v |-> upCall.v]
           set == get_on_conflict_update_data(upCall.setfn, upTarget.fields, upOnUpdate)
           effect == UpsertEffect(upDecls, upTable, new, upTarget, set,
                                  upCall.op = "update_or_create")
       IN /\ upTable' = effect.table
          /\ upOutcome' = IF effect.ok THEN "ok" ELSE "failed"
          \* get_or_create reads the row back when nothing was inserted
          /\ upSent' = IF upCall.op = "get_or_create" /\ effect.ok /\ effect.table = upTable
                       THEN upSent + 1 ELSE upSent
    /\ upNextId' = upNextId + 1
    /\ upPhase' = "idle"
    /\ UNCHANGED <<upDecls, upDict, upOnUpdate, upCall, upTarget, upPrev, upCalls>>

NextUpsert ==
    \/ UpsertCall
    \/ UpsertStatement

(***************************************************************************)
(* FOREIGN KEY RELATION RESOLVER                                           *)
(* utils/sqalchemy.py                                                      *)
(***************************************************************************)

\* bound of the resolver model
MaxLookups == 3

\* ForeignKey: parent column of from_table, referenced table and column
ForeignKey(parent, table, column) == [parent |-> parent, table |-> table, column |-> column]

\* the foreign keys a from_table of the model is made of
ForeignKeyPool ==
    { ForeignKey("a_id", "t1", "id"),
      ForeignKey("b_id", "t1", "id"),
      ForeignKey("c_id", "t2", "id") }

ToTables == {"t1", "t2"}

NoPair == <<>>

InitRelation ==
    /\ \E fks \in SUBSET ForeignKeyPool : fkForeignKeys \in Orderings(fks)
    /\ fkCache = [t \in ToTables |-> NoPair]
    /\ fkLast = [to |-> "", outcome |-> "none", pair |-> NoPair]
    /\ fkSeen = [t \in ToTables |-> {}]
    /\ fkCalls = 0

IdleRelation ==
    /\ fkForeignKeys = <<>>
    /\ fkCache = [t \in ToTables |-> NoPair]
    /\ fkLast = [to |-> "", outcome |-> "none", pair |-> NoPair]
    /\ fkSeen = [t \in ToTables |-> {}]
    /\ fkCalls = 0

\* the body of find_foreign_key_relation: the first foreign key of the
\* iteration that points at to_table, AttributeError when the loop ends
\* without one
FirstMatch(fks, to) ==
    LET matching == {i \in DOMAIN fks : fks[i].table = to}
    IN IF matching = {}
       THEN [outcome |-> "AttributeError", pair |-> NoPair]
       ELSE LET i == CHOOSE i \in matching : \A j \in matching : i <= j
            IN [outcome |-> "ok", pair |-> <<fks[i].parent, fks[i].column>>]

\* find_foreign_key_relation under lru_cache: a cached pair is returned as it
\* is, a returned pair is cached, an exception is not
find_foreign_key_relation(to) ==
    /\ UNCHANGED fkOthers
    /\ fkCalls < MaxLookups
    /\ fkCalls' = fkCalls + 1
    /\ LET result == IF fkCache[to] # NoPair
                     THEN [outcome |-> "ok", pair |-> fkCache[to]]
                     ELSE FirstMatch(fkForeignKeys, to)
       IN /\ fkLast' = [to |-> to, outcome |-> result.outcome, pair |-> result.pair]
          /\ fkCache' = [fkCache EXCEPT ![to] = result.pair]
          /\ fkSeen' = [fkSeen EXCEPT ![to] = @ \cup {result}]
    /\ UNCHANGED fkForeignKeys

NextRelation ==
    \E to \in ToTables : find_foreign_key_relation(to)

(***************************************************************************)
(* CURSOR PAGINATION                                                       *)
(* query/queryset_paginator.py                                             *)
(***************************************************************************)

\* bounds of the paginator model
MaxPgRows == 3
MaxField == 3
MaxLimit == 2
MaxPages == 3

PgRow(id, f) == [id |-> id, f |-> f]

\* the tables of the model: rows 1..n, each with a pagination-field value
PgTables ==
    UNION {{{PgRow(i, fs[i]) : i \in 1..n} : fs \in [1..n -> 1..MaxField]} : n \in 0..MaxPgRows}

InitPaginate ==
    /\ pgRows \in PgTables
    /\ pgOrderDesc \in BOOLEAN
    /\ pgIsIncrease \in BOOLEAN
    /\ pgLimit \in 1..MaxLimit
    /\ pgStart \in {NoneVal} \cup (1..MaxField)
    /\ pgCursor = NoneVal
    /\ pgPhase = "new"
    /\ pgResults = <<>>
    /\ pgPage = <<>>
    /\ pgNext = NoneVal
    /\ pgSeen = {}
    /\ pgPages = 0

IdlePaginate ==
    /\ pgRows = {}
    /\ pgOrderDesc = FALSE
    /\ pgIsIncrease = TRUE
    /\ pgLimit = 1
    /\ pgStart = NoneVal
    /\ pgCursor = NoneVal
    /\ pgPhase = "new"
    /\ pgResults = <<>>
    /\ pgPage = <<>>
    /\ pgNext = NoneVal
    /\ pgSeen = {}
    /\ pgPages = 0

\* the filter of paginate_query: ge for an increasing paginator, le otherwise,
\* none without a start value
PaginationFilter(rows, start, is_increase) ==
    {row \in rows :
        \/ start = NoneVal
        \/ (is_increase /\ row.f >= start)
        \/ (~ is_increase /\ row.f <= start)}

\* ORDER BY f [DESC]: rows with equal values come in any order
Ordered(s, order_desc) ==
    \A i, j \in DOMAIN s :
        (i < j) => IF order_desc THEN s[i].f >= s[j].f ELSE s[i].f <= s[j].f

\* what the query built by paginate_query can return: filter, order, LIMIT limit + 1
PaginatedQueryResults(rows, start, is_increase, order_desc, limit) ==
    {SubSeq(s, 1, Min(Len(s), limit + 1)) :
        s \in {o \in Orderings(PaginationFilter(rows, start, is_increase)) :
                  Ordered(o, order_desc)}}

\* get_limit_exceeded_last_item_index; -1 is the last item
get_limit_exceeded_last_item_indexMutant(order_desc, is_increase) ==
    -1
get_limit_exceeded_last_item_index(order_desc, is_increase) ==
    IF (order_desc /\ ~ is_increase) \/ (~ order_desc /\ is_increase) THEN -1 ELSE 0

\* get_next_pagination_value_and_final_results: <<final_results, next_pagination_value>>
get_next_pagination_value_and_final_results(results, limit, order_desc, is_increase) ==
    IF Len(results) > limit
    THEN LET last_item_index == get_limit_exceeded_last_item_index(order_desc, is_increase)
             item == IF last_item_index = 0 THEN results[1] ELSE results[Len(results)]
         IN <<IF last_item_index = 0 THEN Tail(results) ELSE SubSeq(results, 1, limit),
              item.f>>
    ELSE <<results, NoneVal>>

\* paginate_query up to the await of the query; the first page starts at the
\* caller's start value, every other page at the cursor the last page returned
paginate_query ==
    /\ UNCHANGED pgOthers
    /\ pgPages < MaxPages
    /\ \/ pgPhase = "new" /\ pgCursor' = pgStart
       \/ pgPhase = "returned" /\ pgNext # NoneVal /\ pgCursor' = pgNext
    /\ pgPhase' = "inflight"
    /\ pgPages' = pgPages + 1
    /\ UNCHANGED <<pgRows, pgOrderDesc, pgIsIncrease, pgLimit, pgStart, pgResults, pgPage,
                   pgNext, pgSeen>>

\* the query returns and the page is cut out of its rows
PaginatedQueryReturns ==
    /\ UNCHANGED pgOthers
    /\ pgPhase = "inflight"
    /\ \E results \in PaginatedQueryResults(pgRows, pgCursor, pgIsIncrease, pgOrderDesc, pgLimit) :
          LET out == get_next_pagination_value_and_final_results(
                         results, pgLimit, pgOrderDesc, pgIsIncrease)
          IN /\ pgResults' = results
             /\ pgPage' = out[1]
             /\ pgNext' = out[2]
             /\ pgSeen' = pgSeen \cup Range(out[1])
    /\ pgPhase' = "returned"
    /\ UNCHANGED <<pgRows, pgOrderDesc, pgIsIncrease, pgLimit, pgStart, pgCursor, pgPages>>

NextPaginate ==
    \/ paginate_query
    \/ PaginatedQueryReturns

(***************************************************************************)
(* CONDITIONS: filter, exclude and the field suffixes                      *)
(* query/conditions.py, query/queryset.py                                  *)
(***************************************************************************)

\* bound of the condition model: keyword pairs of the top-level condition
MaxPairs == 1

\* SupportedOperator: the values of the enumeration
SupportedOperator ==
    { "eq", "neq", "ge", "gt", "lt", "le", "between", "in", "not_in", "is", "is_not",
      "like", "ilike", "not_like", "not_ilike", "startswith", "endswith", "contains",
      "concat" }

\* QuerySet.operator_comparison and QuerySet.functions_comparison: their keys
operator_comparison == {"eq", "neq", "gt", "ge", "lt", "le"}
functions_comparison ==
    { "in", "not_in", "is", "is_not", "like", "ilike", "not_like", "not_ilike",
      "startswith", "endswith", "contains", "concat" }

\* the suffixes the conditions of the model carry ("" is a bare field name);
\* the columns are integers, so the string operators are left out
CondSuffixes ==
    {"", "eq", "neq", "gt", "ge", "lt", "le", "in", "not_in", "is", "is_not", "between", "foo"}

CondValues == {NoneVal, 1}
ColumnValues == {NoneVal, 1, 2}

\* the base table: one row for every combination of column values
CondRows == {[a |-> x, b |-> y] : x \in ColumnValues, y \in ColumnValues}

\* a keyword pair field__suffix=value; in / not_in take the list [value],
\* is / is_not take None
KeywordPair(field, suffix, value) == [field |-> field, suffix |-> suffix, value |-> value]

PairsOf(field) ==
    {p \in {KeywordPair(field, s, v) : s \in CondSuffixes, v \in CondValues} :
        p.suffix \in {"is", "is_not"} => p.value = NoneVal}

\* BaseCondition: AndCondition / OrCondition with nested conditions and keyword pairs
BaseCondition(type, conditions, fields_values) ==
    [type |-> type, conditions |-> conditions, fields_values |-> fields_values]

\* keyword arguments: at most n pairs with different keys
RECURSIVE KeywordSets(_, _)
KeywordSets(pairs, n) ==
    IF n = 0 THEN {{}}
    ELSE LET smaller == KeywordSets(pairs, n - 1)
         IN smaller \cup
            UNION {{ps \cup {p} : p \in {q \in pairs : \A r \in ps : r.suffix # q.suffix}} :
                      ps \in smaller}

NestedConditions ==
    {BaseCondition(t, <<>>, {p}) : t \in {"and", "or"}, p \in PairsOf("b")}

\* the conditions of the model: keyword pairs on column a, at most one nested
\* condition on column b
Conditions ==
    {BaseCondition(t, subs, ps) :
        t \in {"and", "or"},
        subs \in {<<>>} \cup {<<c>> : c \in NestedConditions},
        ps \in KeywordSets(PairsOf("a"), MaxPairs)}
    \ {BaseCondition(t, <<>>, {}) : t \in {"and", "or"}}

\* QuerySet.__init__ without arguments: where_conditions holds and_() of nothing
NewQuerySet ==
    [phase |-> "new", error |-> "",
     where |-> <<[negative |-> FALSE, condition |-> BaseCondition("and", <<>>, {})]>>,
     rows |-> {}]

InitCondition ==
    /\ cdCondition \in Conditions
    /\ cdFilterQs = NewQuerySet
    /\ cdExcludeQs = NewQuerySet
    /\ cdSent = 0

IdleCondition ==
    /\ cdCondition = BaseCondition("and", <<>>, {})
    /\ cdFilterQs = NewQuerySet
    /\ cdExcludeQs = NewQuerySet
    /\ cdSent = 0

\* SupportedOperator.get_operator behind parse_field_name_and_operator
parse_field_name_and_operator(pair) ==
    IF pair.suffix = "" THEN "eq"
    ELSE IF pair.suffix \in SupportedOperator THEN pair.suffix
    ELSE "ValueError"

\* how eval_operator ends for one keyword pair
EvalOutcome(pair) ==
    LET field_operator == parse_field_name_and_operator(pair)
    IN IF field_operator = "ValueError" THEN "ValueError"
       ELSE IF field_operator \in operator_comparison THEN "ok"
       ELSE IF field_operator \in functions_comparison THEN "ok"
       ELSE "KeyError"

\* how parse_expression can end: nested conditions are parsed first, then the
\* keyword pairs in the order the caller wrote them; the first error is raised
RECURSIVE ParseOutcomes(_)
ParseOutcomes(condition) ==
    LET nested == {i \in DOMAIN condition.conditions :
                      ParseOutcomes(condition.conditions[i]) # {"ok"}}
        pairs == {EvalOutcome(p) : p \in condition.fields_values} \ {"ok"}
    IN IF nested # {}
       THEN ParseOutcomes(condition.conditions[CHOOSE i \in nested : \A j \in nested : i <= j])
       ELSE IF pairs # {} THEN pairs
       ELSE {"ok"}

\* three-valued logic of the WHERE clause: "T", "F", "N" (NULL)
Bool3(b) == IF b THEN "T" ELSE "F"
Not3(x) == IF x = "T" THEN "F" ELSE IF x = "F" THEN "T" ELSE "N"
And3(xs) == IF "F" \in xs THEN "F" ELSE IF "N" \in xs THEN "N" ELSE "T"
Or3(xs) == IF "T" \in xs THEN "T" ELSE IF "N" \in xs THEN "N" ELSE "F"

\* column IN (list)
In3(column, list) ==
    IF column = NoneVal THEN "N"
    ELSE IF \E i \in DOMAIN list : list[i] # NoneVal /\ list[i] = column THEN "T"
    ELSE IF \E i \in DOMAIN list : list[i] = NoneVal THEN "N"
    ELSE "F"

\* the SQL expression eval_operator builds, evaluated on one row; == None and
\* != None are rendered IS NULL and IS NOT NULL
eval_operator(pair, row) ==
    LET op == parse_field_name_and_operator(pair)
        column == row[pair.field]
        value == pair.value
        null == column = NoneVal \/ value = NoneVal
    IN CASE op = "eq" -> IF value = NoneVal THEN Bool3(column = NoneVal)
                         ELSE IF column = NoneVal THEN "N" ELSE Bool3(column = value)
         [] op = "neq" -> IF value = NoneVal THEN Bool3(column # NoneVal)
                          ELSE IF column = NoneVal THEN "N" ELSE Bool3(column # value)
         [] op = "gt" -> IF null THEN "N" ELSE Bool3(column > value)
         [] op = "ge" -> IF null THEN "N" ELSE Bool3(column >= value)
         [] op = "lt" -> IF null THEN "N" ELSE Bool3(column < value)
         [] op = "le" -> IF null THEN "N" ELSE Bool3(column <= value)
         [] op = "in" -> In3(column, <<value>>)
         [] op = "not_in" -> Not3(In3(column, <<value>>))
         [] op = "is" -> Bool3(column = NoneVal)
         [] op = "is_not" -> Bool3(column # NoneVal)
         [] OTHER -> "N"

\* parse_expression: and_ / or_ over the nested conditions and the keyword pairs
RECURSIVE parse_expression(_, _)
parse_expression(condition, row) ==
    LET args == {parse_expression(condition.conditions[i], row) :
                    i \in DOMAIN condition.conditions}
                \cup {eval_operator(p, row) : p \in condition.fields_values}
    IN IF condition.type = "and" THEN And3(args) ELSE Or3(args)

\* _update_query_condition: the clause appended to where_conditions
update_query_conditionMutant(where, condition, negative) ==
    Append(where, [negative |-> FALSE, condition |-> condition])
update_query_condition(where, condition, negative) ==
    Append(where, [negative |-> negative, condition |-> condition])

\* compile and execution: the rows for which every clause of WHERE is true
SelectRows(where, rows) ==
    {row \in rows :
        \A i \in DOMAIN where :
            (IF where[i].negative
             THEN Not3(parse_expression(where[i].condition, row))
             ELSE parse_expression(where[i].condition, row)) = "T"}

\* a filter / exclude call on a QuerySet
BuilderCall(q, condition, negative) ==
    {IF outcome = "ok"
     THEN [q EXCEPT !.phase = "built",
                     !.where = update_query_condition(q.where, condition, negative)]
     ELSE [q EXCEPT !.phase = "failed", !.error = outcome] :
        outcome \in ParseOutcomes(condition)}

filter ==
    /\ UNCHANGED cdOthers
    /\ cdFilterQs.phase = "new"
    /\ cdFilterQs' \in BuilderCall(cdFilterQs, cdCondition, FALSE)
    /\ UNCHANGED <<cdCondition, cdExcludeQs, cdSent>>

exclude ==
    /\ UNCHANGED cdOthers
    /\ cdExcludeQs.phase = "new"
    /\ cdExcludeQs' \in BuilderCall(cdExcludeQs, cdCondition, TRUE)
    /\ UNCHANGED <<cdCondition, cdFilterQs, cdSent>>

\* process_query: compile, send the statement, take the rows
ProcessQuery(q) ==
    [q EXCEPT !.phase = "executed", !.rows = SelectRows(q.where, CondRows)]

AwaitFilterQuerySet ==
    /\ UNCHANGED cdOthers
    /\ cdFilterQs.phase = "built"
    /\ cdFilterQs' = ProcessQuery(cdFilterQs)
    /\ cdSent' = cdSent + 1
    /\ UNCHANGED <<cdCondition, cdExcludeQs>>

AwaitExcludeQuerySet ==
    /\ UNCHANGED cdOthers
    /\ cdExcludeQs.phase = "built"
    /\ cdExcludeQs' = ProcessQuery(cdExcludeQs)
    /\ cdSent' = cdSent + 1
    /\ UNCHANGED <<cdCondition, cdFilterQs>>

NextCondition ==
    \/ filter
    \/ exclude
    \/ AwaitFilterQuerySet
    \/ AwaitExcludeQuerySet

(***************************************************************************)
(* QUERYSET BUILDER                                                        *)
(* query/queryset.py                                                       *)
(***************************************************************************)

\* bound of the builder model: builder calls on one QuerySet
MaxBuilderCalls == 3

\* the schema behind the QuerySet: the root model has a foreign key field
\* "author" and a to-many relation field "tags"; the author model has a
\* foreign key field "publisher"
RootModel == "book"
RootColumns == {"a", "b"}

related_fields(model) ==
    CASE model = "book" ->
            [author |-> [kind |-> "DatabaseWithValidationField", to_model |-> "author"],
             tags |-> [kind |-> "RelatedFieldBase", to_model |-> "tag"]]
      [] model = "author" ->
            [publisher |-> [kind |-> "DatabaseWithValidationField", to_model |-> "publisher"]]
      [] OTHER -> <<>>

\* the columns of a joined table
TableColumns(model) == <<"id">>

\* "__".join(hops) and ".".join(hops): equal as strings only for a single hop
Join(hops, separator) ==
    [hops |-> hops, separator |-> IF Len(hops) > 1 THEN separator ELSE ""]

RootColumn(name) == [prefix |-> Join(<<RootModel>>, "."), col |-> name]

\* select([table]) and the fields set by QuerySet.__init__ without arguments
QuerySetObject ==
    [where_conditions |-> <<[negative |-> FALSE, condition |-> BaseCondition("and", <<>>, {})]>>,
     annotations |-> {},
     return_raw |-> FALSE,
     flat |-> FALSE,
     fetch_one |-> FALSE,
     dict_key_fields |-> <<>>,
     current_columns_to_select |-> <<RootColumn("a"), RootColumn("b")>>,
     prefetch_field_columns |-> {},
     joined_models |-> {},
     query |-> [columns |-> <<RootColumn("a"), RootColumn("b")>>,
                where |-> <<>>, order_by |-> <<>>, limit |-> NoneVal,
                joins |-> <<>>, group_by |-> <<>>]]

Returns(q) == [qs |-> q, outcome |-> "ok"]
Raises(q, error) == [qs |-> q, outcome |-> error]

\* _get_column_by_name: an annotation or a column of the root table
Label(name) == [prefix |-> Join(<<>>, "."), col |-> name]
ColumnDefined(q, name) == Label(name) \in q.annotations \/ name \in RootColumns
ColumnNamed(q, name) ==
    IF Label(name) \in q.annotations THEN Label(name) ELSE RootColumn(name)

\* filter / exclude
qs_filter(q, condition, negative) ==
    {IF outcome = "ok"
     THEN Returns([q EXCEPT !.where_conditions =
                       update_query_condition(q.where_conditions, condition, negative)])
     ELSE Raises(q, outcome) : outcome \in ParseOutcomes(condition)}

\* fetch_single
fetch_single(q) == [q EXCEPT !.query.limit = 1, !.fetch_one = TRUE]

\* get
qs_get(q, condition) ==
    {IF r.outcome = "ok" THEN Returns(fetch_single(r.qs)) ELSE r :
        r \in qs_filter(q, condition, FALSE)}

\* order_by
qs_order_by(q, field_names, order_desc, nulls_last) ==
    IF \E i \in DOMAIN field_names : ~ ColumnDefined(q, field_names[i])
    THEN {Raises(q, "ValueError")}
    ELSE {Returns([q EXCEPT !.query.order_by = @ \o
              [i \in DOMAIN field_names |->
                  [field |-> field_names[i], desc |-> order_desc, nulls_last |-> nulls_last]]])}

\* limit
qs_limitMutant(q, limit) == {Returns([q EXCEPT !.query.limit = limit, !.query.order_by = <<>>])}
qs_limit(q, limit) == {Returns([q EXCEPT !.query.limit = limit])}

\* values_list
values_list(q, field_names, flat) ==
    IF \E i \in DOMAIN field_names : ~ ColumnDefined(q, field_names[i])
    THEN Raises(q, "ValueError")
    ELSE IF flat /\ Len(field_names) - Len(q.dict_key_fields) # 1
    THEN Raises(q, "AssertionError")
    ELSE LET columns == [i \in DOMAIN field_names |-> ColumnNamed(q, field_names[i])]
         IN Returns([q EXCEPT !.return_raw = TRUE, !.flat = flat,
                              !.query.columns = columns,
                              !.current_columns_to_select = columns])

\* values_dict: the key and the fields go through a set, so in any order
values_dict(q, field_names, key_fields, flat) ==
    {values_list([q EXCEPT !.dict_key_fields = key_fields], columns, flat) :
        columns \in Orderings(Range(key_fields) \cup Range(field_names))}

\* exists / count
qs_exists(q) ==
    LET shaped == [q EXCEPT !.query.columns = <<Label("true")>>,
                            !.current_columns_to_select =
                                <<Label("true")>>]
    IN {Returns([fetch_single(shaped) EXCEPT !.return_raw = TRUE, !.flat = TRUE])}

qs_count(q) ==
    LET shaped == [q EXCEPT !.query.columns = <<Label("cnt")>>,
                            !.current_columns_to_select =
                                <<Label("cnt")>>]
    IN {Returns([fetch_single(shaped) EXCEPT !.return_raw = TRUE, !.flat = TRUE])}

\* annotate with one Aggregation(field, label)
annotate(q, field, label) ==
    IF ~ ColumnDefined(q, field) THEN {Raises(q, "ValueError")}
    ELSE {Returns([q EXCEPT !.annotations = @ \cup {Label(label)}])}

\* aggregate(group_by_fields, select_fields) with plain select fields, no having
aggregate(q, group_by_fields, select_fields, flat) ==
    IF flat /\ Len(select_fields) # 1
    THEN {Raises([q EXCEPT !.return_raw = TRUE], "AssertionError")}
    ELSE IF \E i \in DOMAIN group_by_fields : group_by_fields[i] \notin RootColumns
    THEN {Raises([q EXCEPT !.return_raw = TRUE, !.flat = flat \/ q.flat], "KeyError")}
    ELSE LET grouped == [q EXCEPT !.return_raw = TRUE, !.flat = flat \/ q.flat,
                                  !.query.group_by = @ \o group_by_fields]
         IN IF \E i \in DOMAIN select_fields : ~ ColumnDefined(q, select_fields[i])
            THEN {Raises(grouped, "ValueError")}
            ELSE LET columns == [i \in DOMAIN select_fields |-> ColumnNamed(q, select_fields[i])]
                 IN {Returns([grouped EXCEPT !.query.columns = columns,
                                             !.current_columns_to_select = columns])}

\* the hops of one path of select_related, starting from model with the
\* prefixes so far; the joins and columns added before an error stay
RECURSIVE JoinHops(_, _, _, _)
JoinHops(q, model, hops, done) ==
    IF hops = <<>> THEN Returns(q)
    ELSE IF Head(hops) \notin DOMAIN related_fields(model) THEN Raises(q, "KeyError")
    ELSE LET related_field == related_fields(model)[Head(hops)]
             prefix == Join(Append(done, Head(hops)), ".")
             columns == [i \in DOMAIN TableColumns(related_field.to_model) |->
                            [prefix |-> prefix, col |-> TableColumns(related_field.to_model)[i]]]
             joined == [q EXCEPT !.query.joins = Append(@, related_field.to_model),
                                 !.current_columns_to_select = @ \o columns,
                                 !.annotations = @ \cup Range(columns),
                                 !.joined_models = @ \cup {prefix}]
         IN JoinHops(joined, related_field.to_model, Tail(hops), Append(done, Head(hops)))

\* the paths of select_related one after the other; an error ends the call
\* with the joins of the paths before it made
RECURSIVE JoinPaths(_, _)
JoinPaths(q, paths) ==
    IF paths = <<>> THEN Returns(q)
    ELSE LET r == JoinHops(q, RootModel, Head(paths), <<>>)
         IN IF r.outcome # "ok" THEN r ELSE JoinPaths(r.qs, Tail(paths))

\* select_related: the paths that are not in joined_models, taken in the
\* iteration order of a set
select_related(q, paths) ==
    LET related_models_to_join_set == {p \in paths : Join(p, "__") \notin q.joined_models}
    IN IF related_models_to_join_set = {} THEN {Returns(q)}
       ELSE {LET r == JoinPaths(q, order)
             IN IF r.outcome # "ok" THEN r
                ELSE Returns([r.qs EXCEPT !.query.columns = r.qs.current_columns_to_select]) :
                order \in Orderings(related_models_to_join_set)}

\* prefetch_related without prefetch_col_names
prefetch_related(q, name) ==
    IF name \notin DOMAIN related_fields(RootModel) THEN {Raises(q, "KeyError")}
    ELSE IF Join(<<name>>, ".") \in q.prefetch_field_columns THEN {Returns(q)}
    ELSE IF related_fields(RootModel)[name].kind # "RelatedFieldBase"
    THEN {Raises(q, "ValueError")}
    ELSE {Returns([q EXCEPT !.prefetch_field_columns = @ \cup {Join(<<name>>, ".")}])}

\* compile: the where conditions are added to the query
compile(q) == [q EXCEPT !.query.where = @ \o q.where_conditions]

\* the conditions, fields and paths the calls of the model take
QsConditions ==
    { BaseCondition("and", <<>>, {KeywordPair("a", "gt", 1)}),
      BaseCondition("and", <<>>, {KeywordPair("b", "", 1)}),
      BaseCondition("and", <<>>, {KeywordPair("a", "foo", 1)}) }

QsOrderFields == {"a", "total", "zz"}
QsLimits == {1, 2}
QsPaths == {<<"author">>, <<"tags">>, <<"author", "publisher">>, <<"nope">>}
QsRelations == {"author", "tags", "nope"}
QsPathSets ==
    {{p} : p \in QsPaths} \cup {{<<"tags">>, <<"nope">>}, {<<"author", "nope">>}}
QsSelectFields == {"a", "zz"}

BuilderCalls ==
    {[name |-> n, condition |-> c] : n \in {"filter", "exclude", "get"}, c \in QsConditions}
    \cup {[name |-> "order_by", field |-> f, order_desc |-> d] : f \in QsOrderFields, d \in BOOLEAN}
    \cup {[name |-> "limit", limit |-> l] : l \in QsLimits}
    \cup {[name |-> "values_list", field_names |-> fs, flat |-> fl] :
             fs \in {<<"a">>, <<"a", "b">>}, fl \in BOOLEAN}
    \cup {[name |-> "values_dict", flat |-> fl] : fl \in BOOLEAN}
    \cup {[name |-> n] : n \in {"count", "exists", "annotate"}}
    \cup {[name |-> "aggregate", select_field |-> f] : f \in QsSelectFields}
    \cup {[name |-> "select_related", paths |-> ps] : ps \in QsPathSets}
    \cup {[name |-> "prefetch_related", relation |-> r] : r \in QsRelations}

\* what a builder call does to the QuerySet
Apply(q, call) ==
    CASE call.name = "filter" -> qs_filter(q, call.condition, FALSE)
      [] call.name = "exclude" -> qs_filter(q, call.condition, TRUE)
      [] call.name = "get" -> qs_get(q, call.condition)
      [] call.name = "order_by" -> qs_order_by(q, <<call.field>>, call.order_desc, FALSE)
      [] call.name = "limit" -> qs_limit(q, call.limit)
      [] call.name = "values_list" -> {values_list(q, call.field_names, call.flat)}
      [] call.name = "values_dict" -> values_dict(q, <<"b">>, <<"a">>, call.flat)
      [] call.name = "count" -> qs_count(q)
      [] call.name = "exists" -> qs_exists(q)
      [] call.name = "annotate" -> annotate(q, "a", "total")
      [] call.name = "aggregate" -> aggregate(q, <<"a">>, <<call.select_field>>, FALSE)
      [] call.name = "select_related" -> select_related(q, call.paths)
      [] call.name = "prefetch_related" -> prefetch_related(q, call.relation)

NoBuilderCall == [call |-> [name |-> ""], outcome |-> "none"]

InitQuerySet ==
    /\ qs = QuerySetObject
    /\ qsPhase = "building"
    /\ qsBefore = [qs |-> QuerySetObject, phase |-> "building", shape |-> ""]
    /\ qsLast = NoBuilderCall
    /\ qsShape = ""
    /\ qsCalls = 0
    /\ qsSent = 0

IdleQuerySet ==
    /\ qs = QuerySetObject
    /\ qsPhase = "building"
    /\ qsBefore = [qs |-> QuerySetObject, phase |-> "building", shape |-> ""]
    /\ qsLast = NoBuilderCall
    /\ qsShape = ""
    /\ qsCalls = 0
    /\ qsSent = 0

\* a builder call, in whatever phase the QuerySet is: the code has no guard
BuilderStep(name) ==
    /\ qsCalls < MaxBuilderCalls
    /\ qsCalls' = qsCalls + 1
    /\ \E call \in {c \in BuilderCalls : c.name = name} :
          \E r \in Apply(qs, call) :
             /\ qs' = r.qs
             /\ qsLast' = [call |-> call, outcome |-> r.outcome]
             /\ qsShape' = IF r.outcome = "ok" /\ call.name \in {"count", "exists"} /\ qsShape = ""
                           THEN call.name ELSE qsShape
    /\ qsBefore' = [qs |-> qs, phase |-> qsPhase, shape |-> qsShape]
    /\ UNCHANGED <<qsPhase, qsSent>>

QuerySet_filter ==
    /\ UNCHANGED qsOthers
    /\ BuilderStep("filter")

QuerySet_exclude ==
    /\ UNCHANGED qsOthers
    /\ BuilderStep("exclude")

QuerySet_get ==
    /\ UNCHANGED qsOthers
    /\ BuilderStep("get")

QuerySet_order_by ==
    /\ UNCHANGED qsOthers
    /\ BuilderStep("order_by")

QuerySet_limit ==
    /\ UNCHANGED qsOthers
    /\ BuilderStep("limit")

QuerySet_values_list ==
    /\ UNCHANGED qsOthers
    /\ BuilderStep("values_list")

QuerySet_values_dict ==
    /\ UNCHANGED qsOthers
    /\ BuilderStep("values_dict")

QuerySet_count ==
    /\ UNCHANGED qsOthers
    /\ BuilderStep("count")

QuerySet_exists ==
    /\ UNCHANGED qsOthers
    /\ BuilderStep("exists")

QuerySet_annotate ==
    /\ UNCHANGED qsOthers
    /\ BuilderStep("annotate")

QuerySet_aggregate ==
    /\ UNCHANGED qsOthers
    /\ BuilderStep("aggregate")

QuerySet_select_related ==
    /\ UNCHANGED qsOthers
    /\ BuilderStep("select_related")

QuerySet_prefetch_related ==
    /\ UNCHANGED qsOthers
    /\ BuilderStep("prefetch_related")


\* await: process_query compiles the query and sends the statement
AwaitQuerySet ==
    /\ UNCHANGED qsOthers
    /\ qsPhase = "building"
    /\ qs' = compile(qs)
    /\ qsPhase' = "compiled"
    /\ qsSent' = qsSent + 1
    /\ UNCHANGED <<qsBefore, qsLast, qsShape, qsCalls>>

\* the statement returns
QuerySetExecuted ==
    /\ UNCHANGED qsOthers
    /\ qsPhase = "compiled"
    /\ qsPhase' = "executed"
    /\ UNCHANGED <<qs, qsBefore, qsLast, qsShape, qsCalls, qsSent>>

NextQuerySet ==
    \/ QuerySet_filter
    \/ QuerySet_exclude
    \/ QuerySet_get
    \/ QuerySet_order_by
    \/ QuerySet_limit
    \/ QuerySet_values_list
    \/ QuerySet_values_dict
    \/ QuerySet_count
    \/ QuerySet_exists
    \/ QuerySet_annotate
    \/ QuerySet_aggregate
    \/ QuerySet_select_related
    \/ QuerySet_prefetch_related
    \/ AwaitQuerySet
    \/ QuerySetExecuted

(***************************************************************************)
(* CALL ORDER OF filter / order_by / limit                                 *)
(* query/queryset.py                                                       *)
(***************************************************************************)

\* bounds of the call-order model
MaxFilters == 2
MaxOrderBys == 2

Instances == {"first", "second"}

\* the rows of the table behind the two QuerySets
CommuteRows ==
    { [a |-> 1, b |-> 1], [a |-> 2, b |-> 1], [a |-> 2, b |-> NoneVal], [a |-> NoneVal, b |-> 2],
      [a |-> 3, b |-> NoneVal] }

\* filter(...) and exclude(...) calls of a plan
FilterCalls ==
    { [condition |-> BaseCondition("and", <<>>, {KeywordPair("a", "gt", 1)}), negative |-> FALSE],
      [condition |-> BaseCondition("and", <<>>, {KeywordPair("b", "", 1)}), negative |-> TRUE],
      [condition |-> BaseCondition("or", <<>>, {KeywordPair("b", "is", NoneVal),
                                                 KeywordPair("a", "le", 1)}), negative |-> FALSE] }

\* order_by(...) calls of a plan
OrderByCalls == {[field |-> "a", order_desc |-> FALSE], [field |-> "b", order_desc |-> TRUE]}

RECURSIVE SeqsUpTo(_, _)
SeqsUpTo(S, n) ==
    IF n = 0 THEN {<<>>}
    ELSE SeqsUpTo(S, n - 1) \cup {Append(s, x) : s \in SeqsUpTo(S, n - 1), x \in S}

Plans ==
    {[filters |-> fs, order_bys |-> os, limit |-> l] :
        fs \in {x \in SUBSET FilterCalls : Cardinality(x) <= MaxFilters},
        os \in SeqsUpTo(OrderByCalls, MaxOrderBys),
        l \in QsLimits}

NothingDone == [filters |-> {}, order_bys |-> 0, limit |-> FALSE]

InitCommute ==
    /\ cmPlan \in Plans
    /\ cmQs = [i \in Instances |-> QuerySetObject]
    /\ cmDone = [i \in Instances |-> NothingDone]
    /\ cmPhase = [i \in Instances |-> "building"]
    /\ cmResults = [i \in Instances |-> {}]

IdleCommute ==
    /\ cmPlan = [filters |-> {}, order_bys |-> <<>>, limit |-> 1]
    /\ cmQs = [i \in Instances |-> QuerySetObject]
    /\ cmDone = [i \in Instances |-> NothingDone]
    /\ cmPhase = [i \in Instances |-> "building"]
    /\ cmResults = [i \in Instances |-> {}]

\* ORDER BY: NULL sorts as larger than every value
SortKey(v) == IF v = NoneVal THEN 1000 ELSE v

RECURSIVE InOrder(_, _, _)
InOrder(r1, r2, order_by) ==
    IF order_by = <<>> THEN TRUE
    ELSE LET k == Head(order_by)
             v1 == SortKey(r1[k.field])
             v2 == SortKey(r2[k.field])
         IN IF v1 = v2 THEN InOrder(r1, r2, Tail(order_by))
            ELSE IF k.desc THEN v1 > v2 ELSE v1 < v2

\* the row sequences the compiled query can return: WHERE, ORDER BY, LIMIT;
\* rows that tie under ORDER BY come in any order
ExecuteQuery(query, rows) ==
    {SubSeq(s, 1, IF query.limit = NoneVal THEN Len(s) ELSE Min(query.limit, Len(s))) :
        s \in {o \in Orderings(SelectRows(query.where, rows)) :
                  \A i, j \in DOMAIN o : (i < j) => InOrder(o[i], o[j], query.order_by)}}

\* filter / exclude: any call of the plan not made yet on this QuerySet
CommuteFilter(i) ==
    /\ UNCHANGED cmOthers
    /\ cmPhase[i] = "building"
    /\ \E f \in cmPlan.filters \ cmDone[i].filters :
          /\ \E r \in qs_filter(cmQs[i], f.condition, f.negative) :
                cmQs' = [cmQs EXCEPT ![i] = r.qs]
          /\ cmDone' = [cmDone EXCEPT ![i].filters = @ \cup {f}]
    /\ UNCHANGED <<cmPlan, cmPhase, cmResults>>

\* order_by: the next order_by call of the plan
CommuteOrderBy(i) ==
    /\ UNCHANGED cmOthers
    /\ cmPhase[i] = "building"
    /\ cmDone[i].order_bys < Len(cmPlan.order_bys)
    /\ LET call == cmPlan.order_bys[cmDone[i].order_bys + 1]
       IN \E r \in qs_order_by(cmQs[i], <<call.field>>, call.order_desc, FALSE) :
             cmQs' = [cmQs EXCEPT ![i] = r.qs]
    /\ cmDone' = [cmDone EXCEPT ![i].order_bys = @ + 1]
    /\ UNCHANGED <<cmPlan, cmPhase, cmResults>>

\* limit: the limit call of the plan
CommuteLimit(i) ==
    /\ UNCHANGED cmOthers
    /\ cmPhase[i] = "building"
    /\ ~ cmDone[i].limit
    /\ \E r \in qs_limit(cmQs[i], cmPlan.limit) : cmQs' = [cmQs EXCEPT ![i] = r.qs]
    /\ cmDone' = [cmDone EXCEPT ![i].limit = TRUE]
    /\ UNCHANGED <<cmPlan, cmPhase, cmResults>>

AllCallsMade(i) ==
    /\ cmDone[i].filters = cmPlan.filters
    /\ cmDone[i].order_bys = Len(cmPlan.order_bys)
    /\ cmDone[i].limit

\* await after the last call: process_query compiles and sends the statement
CommuteAwait(i) ==
    /\ UNCHANGED cmOthers
    /\ cmPhase[i] = "building"
    /\ AllCallsMade(i)
    /\ cmQs' = [cmQs EXCEPT ![i] = compile(cmQs[i])]
    /\ cmPhase' = [cmPhase EXCEPT ![i] = "compiled"]
    /\ UNCHANGED <<cmPlan, cmDone, cmResults>>

\* the statement returns
CommuteReturns(i) ==
    /\ UNCHANGED cmOthers
    /\ cmPhase[i] = "compiled"
    /\ cmResults' = [cmResults EXCEPT ![i] = ExecuteQuery(cmQs[i].query, CommuteRows)]
    /\ cmPhase' = [cmPhase EXCEPT ![i] = "executed"]
    /\ UNCHANGED <<cmPlan, cmQs, cmDone>>

NextCommute ==
    \/ \E i \in Instances : CommuteFilter(i)
    \/ \E i \in Instances : CommuteOrderBy(i)
    \/ \E i \in Instances : CommuteLimit(i)
    \/ \E i \in Instances : CommuteAwait(i)
    \/ \E i \in Instances : CommuteReturns(i)

(***************************************************************************)
(* RELATION ATTRIBUTES OF A MODEL INSTANCE                                 *)
(* models/base.py, query/queryset.py                                       *)
(***************************************************************************)

\* an attribute name, as item.split("__qs") sees it: "author" is
\* <<"author">>, "author__qs" is <<"author", "">>, "author__qsx" is
\* <<"author", "x">>, "author__qs__qs" is <<"author", "", "">>
Items ==
    { <<"id">>, <<"author">>, <<"tags">>, <<"typo">>,
      <<"author", "">>, <<"tags", "">>, <<"typo", "">>,
      <<"author", "x">>, <<"author", "", "">> }

RelatedNames == DOMAIN related_fields(RootModel)

\* f"{related_name}__qs"
QsItem(related_name) == <<related_name, "">>

\* the slots of __dict__
Absent == [kind |-> "absent", value |-> NoneVal]
record_not_ready == [kind |-> "ObjectsNotFetchedFromDatabase", value |-> NoneVal]
Fetched(v) == [kind |-> "value", value |-> v]
RelatedQuerySet(related_name) == [kind |-> "queryset", value |-> related_name]
ClassAttribute(related_name) == [kind |-> "related_field", value |-> related_name]

\* what the query of a relation returns
FetchedValues == {NoneVal, 1, 2}
NotCompleted == [done |-> FALSE, result |-> NoneVal]

\* a new instance: the column holds its value, every relation attribute
\* holds the default _record_not_ready, no queryset is cached
NewInstanceDict ==
    [item \in {<<"id">>} \cup {<<n>> : n \in RelatedNames} \cup {QsItem(n) : n \in RelatedNames} |->
        IF item = <<"id">> THEN Fetched(1)
        ELSE IF Len(item) = 1 THEN record_not_ready
        ELSE Absent]

NoRead == [item |-> <<>>, outcome |-> [raised |-> "", message |-> "", value |-> Absent],
           completed |-> NotCompleted]

InitRelationAttr ==
    /\ raDict = NewInstanceDict
    /\ raAwaiting = {}
    /\ raCompleted = [n \in RelatedNames |-> NotCompleted]
    /\ raLast = NoRead

IdleRelationAttr == InitRelationAttr

AttributeReturns(dict, slot) ==
    [dict |-> dict, outcome |-> [raised |-> "", message |-> "", value |-> slot]]

AttributeError(dict, message) ==
    [dict |-> dict, outcome |-> [raised |-> "AttributeError", message |-> message, value |-> Absent]]

DictGet(dict, item) == IF item \in DOMAIN dict THEN dict[item] ELSE Absent

\* DatabaseModel.__getattribute__
getattribute(dict, item) ==
    IF Len(item) = 1 /\ item[1] \in RelatedNames /\ DictGet(dict, item) = record_not_ready
    THEN AttributeError(dict, "hasn't fetched yet")
    ELSE IF DictGet(dict, item) # Absent
    THEN AttributeReturns(dict, DictGet(dict, item))
    ELSE IF Len(item) = 1 /\ item[1] \in RelatedNames
            /\ related_fields(RootModel)[item[1]].kind = "RelatedFieldBase"
    THEN AttributeReturns(dict, ClassAttribute(item[1]))
    ELSE AttributeError(dict, "has no attribute")

\* DatabaseModel.__getattr__, called when __getattribute__ raised
\* AttributeError
getattr(dict, item) ==
    IF Len(item) = 2
    THEN IF item[1] \notin RelatedNames
         THEN AttributeError(dict, "has no attribute")
         ELSE AttributeReturns([dict EXCEPT ![QsItem(item[1])] = RelatedQuerySet(item[1])],
                               RelatedQuerySet(item[1]))
    ELSE IF Len(item) = 1 /\ item[1] \in RelatedNames
    THEN AttributeError(dict, "hasn't fetched yet")
    ELSE AttributeError(dict, "has no attribute")

\* instance.<item>
ReadItem(dict, item) ==
    IF getattribute(dict, item).outcome.raised = "AttributeError"
    THEN getattr(dict, item)
    ELSE getattribute(dict, item)

\* the callback __getattr__ adds to the queryset:
\* partial(object.__setattr__, self, related_name)
execute_callbacksMutant(dict, related_name, result) == dict
execute_callbacks(dict, related_name, result) ==
    [dict EXCEPT ![<<related_name>>] = Fetched(result)]

\* instance.<item> is read
ReadAttribute(item) ==
    /\ UNCHANGED raOthers
    /\ raDict' = ReadItem(raDict, item).dict
    /\ raLast' = [item |-> item, outcome |-> ReadItem(raDict, item).outcome,
                  completed |-> IF Len(item) = 1 /\ item[1] \in RelatedNames
                                THEN raCompleted[item[1]] ELSE NotCompleted]
    /\ UNCHANGED <<raAwaiting, raCompleted>>

\* await instance.<name>__qs: process_query sends the statement
AwaitRelatedQuerySet(related_name) ==
    /\ UNCHANGED raOthers
    /\ raDict[QsItem(related_name)] = RelatedQuerySet(related_name)
    /\ related_name \notin raAwaiting
    /\ raAwaiting' = raAwaiting \cup {related_name}
    /\ UNCHANGED <<raDict, raCompleted, raLast>>

\* the statement returns: process_query executes the callbacks with the result
RelatedQueryReturns(related_name) ==
    /\ UNCHANGED raOthers
    /\ related_name \in raAwaiting
    /\ \E result \in FetchedValues :
          /\ raDict' = execute_callbacks(raDict, related_name, result)
          /\ raCompleted' = [raCompleted EXCEPT ![related_name] = [done |-> TRUE, result |-> result]]
    /\ raAwaiting' = raAwaiting \ {related_name}
    /\ UNCHANGED raLast

\* the statement raises: no callback is executed
RelatedQueryFails(related_name) ==
    /\ UNCHANGED raOthers
    /\ related_name \in raAwaiting
    /\ raAwaiting' = raAwaiting \ {related_name}
    /\ UNCHANGED <<raDict, raCompleted, raLast>>

NextRelationAttr ==
    \/ \E item \in Items : ReadAttribute(item)
    \/ \E n \in RelatedNames : AwaitRelatedQuerySet(n)
    \/ \E n \in RelatedNames : RelatedQueryReturns(n)
    \/ \E n \in RelatedNames : RelatedQueryFails(n)

(***************************************************************************)
(* TRANSACTIONS OF A BACKEND                                               *)
(* backends/base.py, backends/patched_transaction.py                       *)
(***************************************************************************)

\* bounds of the transaction model: the nesting depth of the transactions
\* of one backend, and the exits of one backend whose commit or rollback
\* raises
MaxNested == 2
MaxFailedExits == 1

NoStep == [op |-> "", backend |-> RootPool, before |-> [b \in Backends |-> FALSE]]

InitTransaction ==
    /\ txOpen = [b \in Backends |-> 0]
    /\ txLast = NoStep

IdleTransaction == InitTransaction

\* DatabaseBackend.is_on_transaction() of every backend
IsOnTransaction == [b \in Backends |-> is_on_transaction(ON_TRANSACTION, b)]

\* async with await backend.transaction(): Transaction.__aenter__ starts the
\* transaction, then the counter of the backend is incremented
PatchedTransaction_aenter(backend) ==
    /\ UNCHANGED txOthers
    /\ txOpen[backend] < MaxNested
    /\ txOpen' = [txOpen EXCEPT ![backend] = @ + 1]
    /\ ON_TRANSACTION' = TransactionEntered(ON_TRANSACTION, backend)
    /\ txLast' = [op |-> "aenter", backend |-> backend, before |-> IsOnTransaction]

\* Transaction.__aenter__ raises (the connection or BEGIN fails): no
\* transaction is open and the lines after the await are not reached
PatchedTransaction_aenter_raises(backend) ==
    /\ UNCHANGED txOthers
    /\ txOpen[backend] < MaxNested
    /\ txLast' = [op |-> "aenter_raises", backend |-> backend, before |-> IsOnTransaction]
    /\ UNCHANGED <<txOpen, ON_TRANSACTION>>

\* the block is left: Transaction.__aexit__ commits or rolls back, then the
\* counter of the backend is decremented
PatchedTransaction_aexit(backend) ==
    /\ UNCHANGED txOthers
    /\ txOpen[backend] > 0
    /\ txOpen' = [txOpen EXCEPT ![backend] = @ - 1]
    /\ ON_TRANSACTION' = TransactionExited(ON_TRANSACTION, backend)
    /\ txLast' = [op |-> "aexit", backend |-> backend, before |-> IsOnTransaction]

\* Transaction.__aexit__ raises (COMMIT or ROLLBACK fails): the transaction
\* is over, the exception leaves __aexit__ at the await and the lines that
\* decrement the counter are not reached
PatchedTransaction_aexit_raises(backend) ==
    /\ UNCHANGED txOthers
    /\ txOpen[backend] > 0
    /\ ON_TRANSACTION[backend] - txOpen[backend] < MaxFailedExits
    /\ txOpen' = [txOpen EXCEPT ![backend] = @ - 1]
    /\ txLast' = [op |-> "aexit_raises", backend |-> backend, before |-> IsOnTransaction]
    /\ UNCHANGED ON_TRANSACTION

NextTransaction ==
    \/ \E b \in Backends : PatchedTransaction_aenter(b)
    \/ \E b \in Backends : PatchedTransaction_aenter_raises(b)
    \/ \E b \in Backends : PatchedTransaction_aexit(b)
    \/ \E b \in Backends : PatchedTransaction_aexit_raises(b)

(***************************************************************************)
(* SET FUNCTIONS IN bulk_update AND THE UPSERTS                             *)
(* managers/base.py, managers/postgres/manager.py,                         *)
(* managers/set_functions.py                                               *)
(***************************************************************************)

\* bound of the set function model: the rows of one call
MaxInputRows == 2

\* the calls that take set_functions
SetFunctionOps == {"bulk_update", "update_or_create", "bulk_update_or_create"}

\* set_functions = {"v": name}, or no set function
SetFunctionArgs == {"", "+", "eq_not_null"}

\* the rows a call carries: id 1 may match a row of the table, id 3 never does
InputRows == {[id |-> i, k |-> k, v |-> v] : i \in {1, 3}, k \in {1, 2}, v \in {NoneVal, 1, 2}}

\* the row with id 2 is matched by no input row
UnmatchedRow == [id |-> 2, k |-> 1, v |-> 1]

InitialSetTables ==
    {{UnmatchedRow}} \cup
    {{UnmatchedRow, [id |-> 1, k |-> k, v |-> v]} : k \in {1, 2}, v \in {NoneVal, 1}}

NoSetCall == [op |-> "", data |-> <<>>, setfn |-> ""]

InitSetFunction ==
    /\ sfOnUpdate \in BOOLEAN
    /\ sfTable \in InitialSetTables
    /\ sfCall = NoSetCall
    /\ sfBefore = {}
    /\ sfPhase = "idle"
    /\ sfOutcome = "none"

IdleSetFunction ==
    /\ sfOnUpdate = FALSE
    /\ sfTable = {UnmatchedRow}
    /\ sfCall = NoSetCall
    /\ sfBefore = {}
    /\ sfPhase = "idle"
    /\ sfOutcome = "none"

\* bulk_update: the SET clause, column -> what it is set to; the key fields
\* are left out, the named set function replaces the column of the VALUES table
bulk_update_values(setfn, key_fields) ==
    [c \in {PkColumn, "k", "v"} \ key_fields |->
        IF set_func_name(setfn, c) # "" THEN set_func_name(setfn, c) ELSE "excluded"]

\* UPDATE ... FROM values_data_table WHERE table.id = values_data_table.id:
\* a row of the table that several rows of the VALUES table match is updated
\* once, from any one of them; the result is the set of tables this can give
BulkUpdateEffect(table, data, set) ==
    LET matched == {row \in table : \E i \in DOMAIN data : data[i].id = row.id}
        updated(row, from) ==
            [c \in DOMAIN row |->
                IF c \in DOMAIN set THEN SetValue(set[c], row[c], from[c]) ELSE row[c]]
    IN {{IF row \in matched THEN updated(row, data[pick[row]]) ELSE row : row \in table} :
           pick \in {p \in [matched -> DOMAIN data] : \A row \in matched : data[p[row]].id = row.id}}

\* INSERT ... VALUES (data) ON CONFLICT (id) DO UPDATE SET ...: row after row;
\* the statement raises when it would affect a row a second time
RECURSIVE UpsertRows(_, _, _)
UpsertRows(table, data, set) ==
    IF data = <<>> THEN [ok |-> TRUE, table |-> table]
    ELSE IF \E i \in DOMAIN Tail(data) : Tail(data)[i].id = Head(data).id
    THEN [ok |-> FALSE, table |-> table]
    ELSE LET effect == UpsertEffect({}, table, Head(data), get_table_unique_constraint(<<>>),
                                    set, TRUE)
         IN IF effect.ok THEN UpsertRows(effect.table, Tail(data), set) ELSE effect

\* the call up to the await of its statement
SetFunctionCall ==
    /\ UNCHANGED sfOthers
    /\ sfPhase = "idle"
    /\ \E op \in SetFunctionOps, data \in SeqsUpTo(InputRows, MaxInputRows) \ {<<>>},
          setfn \in SetFunctionArgs :
          /\ (op = "update_or_create") => Len(data) = 1
          /\ sfCall' = [op |-> op, data |-> data, setfn |-> setfn]
    /\ sfBefore' = sfTable
    /\ sfPhase' = "inflight"
    /\ UNCHANGED <<sfOnUpdate, sfTable, sfOutcome>>

\* the statement of bulk_update is executed
BulkUpdateStatement ==
    /\ UNCHANGED sfOthers
    /\ sfPhase = "inflight"
    /\ sfCall.op = "bulk_update"
    /\ sfTable' \in BulkUpdateEffect(sfTable, sfCall.data,
                                      bulk_update_values(sfCall.setfn, {PkColumn}))
    /\ sfOutcome' = "ok"
    /\ sfPhase' = "done"
    /\ UNCHANGED <<sfOnUpdate, sfCall, sfBefore>>

\* the statement of update_or_create / bulk_update_or_create is executed
OnConflictUpdateStatement ==
    /\ UNCHANGED sfOthers
    /\ sfPhase = "inflight"
    /\ sfCall.op \in {"update_or_create", "bulk_update_or_create"}
    /\ LET effect == UpsertRows(sfTable, sfCall.data,
                                get_on_conflict_update_data(sfCall.setfn, <<PkColumn>>, sfOnUpdate))
       IN /\ sfTable' = IF effect.ok THEN effect.table ELSE sfTable
          /\ sfOutcome' = IF effect.ok THEN "ok" ELSE "failed"
    /\ sfPhase' = "done"
    /\ UNCHANGED <<sfOnUpdate, sfCall, sfBefore>>

NextSetFunction ==
    \/ SetFunctionCall
    \/ BulkUpdateStatement
    \/ OnConflictUpdateStatement

(***************************************************************************)
(* values_dict AND THE DICTIONARY OF RawQuerySet                           *)
(* query/queryset.py                                                       *)
(***************************************************************************)

\* bound of the values_dict model: the rows of the result
MaxResultRows == 3

\* key_fields: a column name (str) or a tuple of column names
DictKeyFields ==
    { [tuple |-> FALSE, names |-> <<"id">>], [tuple |-> FALSE, names |-> <<"a">>],
      [tuple |-> TRUE, names |-> <<"a">>], [tuple |-> TRUE, names |-> <<"a", "b">>] }

DictFieldNames == {{}, {"b"}, {"a", "b"}}

\* the rows of the table: the primary key and two columns that are not unique
DictRows == {[id |-> i, a |-> a, b |-> b] : i \in 1..MaxResultRows, a \in {NoneVal, 1}, b \in {1, 2}}

\* what the SELECT can return: rows with different primary keys, in any order
DictResults ==
    {s \in SeqsUpTo(DictRows, MaxResultRows) :
        \A i, j \in DOMAIN s : (i # j) => s[i].id # s[j].id}

NoDictCall == [key_fields |-> [tuple |-> FALSE, names |-> <<>>], field_names |-> {}, flat |-> FALSE]

InitValuesDict ==
    /\ vdCall = NoDictCall
    /\ vdPhase = "new"
    /\ vdResults = <<>>
    /\ vdParsed = <<>>

IdleValuesDict == InitValuesDict

\* set(chain(key_fields_as_tuple, field_names)): the columns of the SELECT
unique_selected_columns(call) == Range(call.key_fields.names) \cup call.field_names

\* the assertions of values_list for flat=True
FlatAllowed(call) ==
    IF call.key_fields.tuple
    THEN Cardinality(unique_selected_columns(call)) - Len(call.key_fields.names) = 1
    ELSE Cardinality(unique_selected_columns(call)) = 2

\* the key of a row: dicted_row.pop(key) or the tuple of the popped values
DictKey(row, key_fields) ==
    [tuple |-> key_fields.tuple, vals |-> [i \in DOMAIN key_fields.names |-> row[key_fields.names[i]]]]

\* the value of a row: what is left of dicted_row, or its only value for flat
DictValue(row, call) ==
    LET left == unique_selected_columns(call) \ Range(call.key_fields.names)
    IN [flat |-> call.flat, row |-> [c \in left |-> row[c]]]

\* d[key] = value of a dict comprehension: a key that is in the dictionary
\* keeps its place and gets the new value
DictSetItemMutant(entries, entry) ==
    IF \E i \in DOMAIN entries : entries[i].key = entry.key THEN entries
    ELSE Append(entries, entry)
DictSetItem(entries, entry) ==
    IF \E i \in DOMAIN entries : entries[i].key = entry.key
    THEN [i \in DOMAIN entries |-> IF entries[i].key = entry.key THEN entry ELSE entries[i]]
    ELSE Append(entries, entry)

\* the dict comprehension of _process_query_raw over the rows in result order
RECURSIVE process_query_raw(_, _, _, _)
process_query_raw(results, call, n, entries) ==
    IF n > Len(results) THEN entries
    ELSE process_query_raw(results, call, n + 1,
             DictSetItem(entries, [key |-> DictKey(results[n], call.key_fields),
                                   value |-> DictValue(results[n], call),
                                   row |-> n]))

\* qs.values_dict(*field_names, key_fields=..., flat=...)
QuerySet_values_dict_call ==
    /\ UNCHANGED vdOthers
    /\ vdPhase = "new"
    /\ \E key_fields \in DictKeyFields, field_names \in DictFieldNames, flat \in BOOLEAN :
          LET call == [key_fields |-> key_fields, field_names |-> field_names, flat |-> flat]
          IN /\ flat => FlatAllowed(call)
             /\ vdCall' = call
    /\ vdPhase' = "built"
    /\ UNCHANGED <<vdResults, vdParsed>>

\* await: process_query hands the statement to a RawQuerySet, which sends it
AwaitValuesDict ==
    /\ UNCHANGED vdOthers
    /\ vdPhase = "built"
    /\ vdPhase' = "inflight"
    /\ UNCHANGED <<vdCall, vdResults, vdParsed>>

\* fetch_all returns and the dictionary is built
ValuesDictReturns ==
    /\ UNCHANGED vdOthers
    /\ vdPhase = "inflight"
    /\ \E results \in DictResults :
          /\ vdResults' = results
          /\ vdParsed' = process_query_raw(results, vdCall, 1, <<>>)
    /\ vdPhase' = "returned"
    /\ UNCHANGED vdCall

NextValuesDict ==
    \/ QuerySet_values_dict_call
    \/ AwaitValuesDict
    \/ ValuesDictReturns

(***************************************************************************)
(* UPDATE AND DELETE THROUGH A QuerySet                                    *)
(* query/queryset.py, models/base.py                                       *)
(***************************************************************************)

\* the tables: two rows, primary keys 1 and 2
UpdateTables ==
    {{[id |-> 1, a |-> a1, b |-> b1], [id |-> 2, a |-> a2, b |-> 1]} :
        a1 \in ColumnValues, a2 \in ColumnValues, b1 \in {1, 2}}

\* the conditions X of filter(X)
UpdateConditions ==
    { BaseCondition("and", <<>>, {KeywordPair("a", "", 1)}),
      BaseCondition("and", <<>>, {KeywordPair("a", "gt", 1), KeywordPair("b", "", 1)}),
      BaseCondition("or", <<>>, {KeywordPair("a", "is", NoneVal), KeywordPair("b", "neq", 1)}),
      BaseCondition("and", <<>>, {KeywordPair("a", "neq", 1)}) }

\* filter(**{pk_field: pk_field_value}) of DatabaseModel.update
PkCondition(pk) == BaseCondition("and", <<>>, {KeywordPair(PkColumn, "", pk)})

NoStatement == [kind |-> "select", values |-> <<>>]
NoUpdateCall == [op |-> "", condition |-> BaseCondition("and", <<>>, {}), value |-> NoneVal]
NewUpdateQuerySet == [where_conditions |-> <<>>, query |-> NoStatement, where |-> <<>>]

InitUpdate ==
    /\ udOnUpdate \in BOOLEAN
    /\ udTable \in UpdateTables
    /\ udCall = NoUpdateCall
    /\ udQs = NewUpdateQuerySet
    /\ udBefore = {}
    /\ udPhase = "new"
    /\ udExists = FALSE

IdleUpdate ==
    /\ udOnUpdate = FALSE
    /\ udTable = {}
    /\ udCall = NoUpdateCall
    /\ udQs = NewUpdateQuerySet
    /\ udBefore = {}
    /\ udPhase = "new"
    /\ udExists = FALSE

\* objects.filter(X): the QuerySet with X in where_conditions
FilteredQuerySet(condition) ==
    [NewUpdateQuerySet EXCEPT
        !.where_conditions = update_query_condition(@, condition, FALSE)]

\* QuerySet.update(**field_values): the statement replaces self.query
qs_update(q, field_values) == [q EXCEPT !.query = [kind |-> "update", values |-> field_values]]

\* QuerySet.delete()
qs_delete(q) == [q EXCEPT !.query = [kind |-> "delete", values |-> <<>>]]

\* DatabaseModel.update: field_values.update(get_table_onupdate_defaults)
InstanceFieldValues(value, onupdate) ==
    [a |-> IF "a" \in DOMAIN [c \in (IF onupdate THEN {"a"} ELSE {}) |-> OnUpdateArg]
           THEN OnUpdateArg ELSE value]

\* the table after the compiled UPDATE / DELETE ... WHERE
ExecuteStatementMutant(q, table) ==
    IF q.query.kind = "delete" THEN {}
    ELSE {[row EXCEPT !.a = q.query.values.a] : row \in table}
ExecuteStatement(q, table) ==
    LET matching == SelectRows(q.where, table)
    IN IF q.query.kind = "delete" THEN table \ matching
       ELSE {IF row \in matching THEN [row EXCEPT !.a = q.query.values.a] ELSE row : row \in table}

\* objects.filter(X).delete()
QuerySet_delete ==
    /\ UNCHANGED udOthers
    /\ udPhase = "new"
    /\ \E condition \in UpdateConditions :
          /\ udCall' = [op |-> "delete", condition |-> condition, value |-> NoneVal]
          /\ udQs' = qs_delete(FilteredQuerySet(condition))
    /\ udPhase' = "built"
    /\ UNCHANGED <<udOnUpdate, udTable, udBefore, udExists>>

\* objects.filter(X).update(a=value)
QuerySet_update ==
    /\ UNCHANGED udOthers
    /\ udPhase = "new"
    /\ \E condition \in UpdateConditions, value \in ColumnValues :
          /\ udCall' = [op |-> "update", condition |-> condition, value |-> value]
          /\ udQs' = qs_update(FilteredQuerySet(condition), [a |-> value])
    /\ udPhase' = "built"
    /\ UNCHANGED <<udOnUpdate, udTable, udBefore, udExists>>

\* instance.update(a=value) of the instance of a row
DatabaseModel_update ==
    /\ UNCHANGED udOthers
    /\ udPhase = "new"
    /\ \E row \in udTable, value \in ColumnValues :
          /\ udCall' = [op |-> "instance_update", condition |-> PkCondition(row.id),
                        value |-> value]
          /\ udQs' = qs_update(FilteredQuerySet(PkCondition(row.id)),
                               InstanceFieldValues(value, udOnUpdate))
    /\ udPhase' = "built"
    /\ UNCHANGED <<udOnUpdate, udTable, udBefore, udExists>>

\* await: compile adds where_conditions to the statement, which is sent
AwaitUpdateQuerySet ==
    /\ UNCHANGED udOthers
    /\ udPhase = "built"
    /\ udQs' = [udQs EXCEPT !.where = @ \o udQs.where_conditions]
    /\ udBefore' = udTable
    /\ udPhase' = "inflight"
    /\ UNCHANGED <<udOnUpdate, udTable, udCall, udExists>>

\* the statement is executed
UpdateStatementReturns ==
    /\ UNCHANGED udOthers
    /\ udPhase = "inflight"
    /\ udTable' = ExecuteStatement(udQs, udTable)
    /\ udPhase' = "returned"
    /\ UNCHANGED <<udOnUpdate, udCall, udQs, udBefore, udExists>>

\* await objects.filter(X).exists() after the statement
ExistsAfterStatement ==
    /\ UNCHANGED udOthers
    /\ udPhase = "returned"
    /\ udExists' = (SelectRows(FilteredQuerySet(udCall.condition).where_conditions, udTable) # {})
    /\ udPhase' = "checked"
    /\ UNCHANGED <<udOnUpdate, udTable, udCall, udQs, udBefore>>

NextUpdate ==
    \/ QuerySet_delete
    \/ QuerySet_update
    \/ DatabaseModel_update
    \/ AwaitUpdateQuerySet
    \/ UpdateStatementReturns
    \/ ExistsAfterStatement

(***************************************************************************)
(* THE TRANSACTION STATE SEEN BY CONCURRENT TASKS                          *)
(* backends/patched_transaction.py, backends/base.py                       *)
(***************************************************************************)

Tasks == {"t1", "t2"}

NoTaskRead == [task |-> "", backend |-> RootPool, open |-> 0, value |-> FALSE]

InitTaskTransaction ==
    /\ ctOpen = [t \in Tasks |-> [b \in Backends |-> 0]]
    /\ ctRead = NoTaskRead

IdleTaskTransaction ==
    /\ ctOpen = [t \in Tasks |-> [b \in Backends |-> 0]]
    /\ ctRead = NoTaskRead

\* ON_TRANSACTION.get() in the context of a task.  The ContextVar is made
\* with default=Counter(): one Counter object, created at import.  A context
\* in which the variable is not set gets that object; __aenter__ and
\* __aexit__ change it in place and set() the variable to the same object.
\* So in every context get() returns the one Counter, whatever the task.
ContextGet(task) == ON_TRANSACTION

\* a task enters "async with await backend.transaction()"
Task_aenter(task, backend) ==
    /\ UNCHANGED ctOthers
    /\ ctOpen[task][backend] < MaxNested
    /\ ctOpen' = [ctOpen EXCEPT ![task][backend] = @ + 1]
    /\ ON_TRANSACTION' = TransactionEntered(ContextGet(task), backend)
    /\ UNCHANGED ctRead

\* a task leaves the block, the commit or rollback succeeds
Task_aexit(task, backend) ==
    /\ UNCHANGED ctOthers
    /\ ctOpen[task][backend] > 0
    /\ ctOpen' = [ctOpen EXCEPT ![task][backend] = @ - 1]
    /\ ON_TRANSACTION' = TransactionExited(ContextGet(task), backend)
    /\ UNCHANGED ctRead

\* a task calls backend.is_on_transaction()
Task_is_on_transaction(task, backend) ==
    /\ UNCHANGED ctOthers
    /\ ctRead' = [task |-> task, backend |-> backend, open |-> ctOpen[task][backend],
                  value |-> is_on_transaction(ContextGet(task), backend)]
    /\ UNCHANGED <<ctOpen, ON_TRANSACTION>>

NextTaskTransaction ==
    \/ \E t \in Tasks, b \in Backends : Task_aenter(t, b)
    \/ \E t \in Tasks, b \in Backends : Task_aexit(t, b)
    \/ \E t \in Tasks, b \in Backends : Task_is_on_transaction(t, b)

(***************************************************************************)
(* CONNECTING THE POOL ON FIRST USE                                        *)
(* backends/base.py                                                        *)
(***************************************************************************)

Coroutines == {"c1", "c2", "c3"}
BackendOps == {"execute", "execute_many", "fetch_one", "fetch_all", "transaction"}

InitConnect ==
    /\ cnPc = [c \in Coroutines |-> "idle"]
    /\ cnOp = [c \in Coroutines |-> ""]
    /\ cnLock = [created |-> FALSE, holder |-> "", waiters |-> <<>>]
    /\ cnIsConnected = FALSE
    /\ cnConnects = 0
    /\ cnSent = {}

IdleConnect ==
    /\ cnPc = [c \in Coroutines |-> "idle"]
    /\ cnOp = [c \in Coroutines |-> ""]
    /\ cnLock = [created |-> FALSE, holder |-> "", waiters |-> <<>>]
    /\ cnIsConnected = FALSE
    /\ cnConnects = 0
    /\ cnSent = {}

\* DatabaseBackend.lock: the Lock is made on first use
lock(l) == IF ~ l.created THEN [l EXCEPT !.created = TRUE] ELSE l

\* asyncio.Lock.acquire waits when the lock is held or others wait for it
LockedMutant(l) == FALSE
Locked(l) == l.holder # "" \/ l.waiters # <<>>

\* the operation goes on after "await self.connect()": the statement, or
\* the connection for the transaction, is handed to the pool
SendToPool(sent, c, op, is_connected) ==
    sent \cup {[coroutine |-> c, op |-> op, connected |-> is_connected]}

\* a coroutine calls an operation: "await self.connect()" takes the lock when
\* it is free, then invokes pool.connect() unless the pool is connected
BackendOperation(c, op) ==
    /\ UNCHANGED cnOthers
    /\ cnPc[c] = "idle"
    /\ cnOp' = [cnOp EXCEPT ![c] = op]
    /\ IF Locked(lock(cnLock))
       THEN /\ cnLock' = [lock(cnLock) EXCEPT !.waiters = Append(@, c)]
            /\ cnPc' = [cnPc EXCEPT ![c] = "waiting"]
            /\ UNCHANGED <<cnConnects, cnSent>>
       ELSE IF ~ cnIsConnected
            THEN /\ cnLock' = [lock(cnLock) EXCEPT !.holder = c]
                 /\ cnConnects' = cnConnects + 1
                 /\ cnPc' = [cnPc EXCEPT ![c] = "connecting"]
                 /\ UNCHANGED cnSent
            ELSE /\ cnLock' = lock(cnLock)
                 /\ cnSent' = SendToPool(cnSent, c, op, cnIsConnected)
                 /\ cnPc' = [cnPc EXCEPT ![c] = "done"]
                 /\ UNCHANGED cnConnects
    /\ UNCHANGED cnIsConnected

\* pool.connect() completes: is_connected is set, the lock is released and
\* the operation of the coroutine goes on
PoolConnectReturns(c) ==
    /\ UNCHANGED cnOthers
    /\ cnPc[c] = "connecting"
    /\ cnIsConnected' = TRUE
    /\ cnLock' = IF cnLock.holder = c THEN [cnLock EXCEPT !.holder = ""] ELSE cnLock
    /\ cnSent' = SendToPool(cnSent, c, cnOp[c], TRUE)
    /\ cnPc' = [cnPc EXCEPT ![c] = "done"]
    /\ UNCHANGED <<cnOp, cnConnects>>

\* the first waiter is woken with the lock released and takes it
LockAcquired(c) ==
    /\ UNCHANGED cnOthers
    /\ cnPc[c] = "waiting"
    /\ cnLock.holder = ""
    /\ cnLock.waiters # <<>>
    /\ Head(cnLock.waiters) = c
    /\ IF ~ cnIsConnected
       THEN /\ cnLock' = [cnLock EXCEPT !.holder = c, !.waiters = Tail(@)]
            /\ cnConnects' = cnConnects + 1
            /\ cnPc' = [cnPc EXCEPT ![c] = "connecting"]
            /\ UNCHANGED cnSent
       ELSE /\ cnLock' = [cnLock EXCEPT !.waiters = Tail(@)]
            /\ cnSent' = SendToPool(cnSent, c, cnOp[c], cnIsConnected)
            /\ cnPc' = [cnPc EXCEPT ![c] = "done"]
            /\ UNCHANGED cnConnects
    /\ UNCHANGED <<cnOp, cnIsConnected>>

NextConnect ==
    \/ \E c \in Coroutines, op \in BackendOps : BackendOperation(c, op)
    \/ \E c \in Coroutines : PoolConnectReturns(c)
    \/ \E c \in Coroutines : LockAcquired(c)

(***************************************************************************)
(* CONCURRENT get_or_create                                                *)
(* managers/postgres/manager.py                                            *)
(***************************************************************************)

Callers == {"c1", "c2"}
GetOrCreateOps == {"get_or_create", "create_or_nothing"}
GetOrCreateSchemas == {{UniqueColumn("k")}, {UniqueIndex(<<"k">>, "v > 1")}}

\* the result None
NoRow == [id |-> 0, k |-> NoneVal, v |-> NoneVal]
NoResult == [row |-> NoRow, created |-> FALSE]

InitGetOrCreate ==
    /\ gcDecls \in GetOrCreateSchemas
    /\ gcOp \in GetOrCreateOps
    /\ gcKey \in UpsertKeys
    /\ gcTable = {}
    /\ gcNextId = 1
    /\ gcPc = [c \in Callers |-> "idle"]
    /\ gcValue = [c \in Callers |-> NoneVal]
    /\ gcResult = [c \in Callers |-> NoResult]

IdleGetOrCreate ==
    /\ gcDecls = {}
    /\ gcOp = ""
    /\ gcKey = NoneVal
    /\ gcTable = {}
    /\ gcNextId = 1
    /\ gcPc = [c \in Callers |-> "idle"]
    /\ gcValue = [c \in Callers |-> NoneVal]
    /\ gcResult = [c \in Callers |-> NoResult]

\* the conflict target __get_or_create derives for the model
GetOrCreateTarget ==
    get_table_unique_constraint(
        CHOOSE dict \in get_table_unique_constraints_fields(gcDecls) : TRUE)

\* created = result is not None
createdMutant(result) == TRUE
created(result) == result # NoRow

\* self.get(**{k: insert_values[k] for k in unique_constraint_fields}) on the
\* table: one of the rows with the key values, None when there is none
GetByKey(table, fields, values) ==
    LET condition == BaseCondition("and", <<>>,
                         {KeywordPair(fields[i], "", values[fields[i]]) : i \in DOMAIN fields})
        rows == SelectRows(<<[negative |-> FALSE, condition |-> condition]>>, table)
    IN IF rows = {} THEN {NoRow} ELSE rows

\* a coroutine calls the method: the INSERT ... ON CONFLICT DO NOTHING
\* RETURNING statement is built and awaited
GetOrCreateCall(c) ==
    /\ UNCHANGED gcOthers
    /\ gcPc[c] = "idle"
    /\ \E v \in UpsertValues : gcValue' = [gcValue EXCEPT ![c] = v]
    /\ gcPc' = [gcPc EXCEPT ![c] = "insert"]
    /\ UNCHANGED <<gcDecls, gcOp, gcKey, gcTable, gcNextId, gcResult>>

\* the INSERT of a coroutine is executed and returns the row or nothing
InsertReturns(c) ==
    /\ UNCHANGED gcOthers
    /\ gcPc[c] = "insert"
    /\ LET new == [id |-> gcNextId, k |-> gcKey, v |-> gcValue[c]]
           effect == UpsertEffect(gcDecls, gcTable, new, GetOrCreateTarget, <<>>, FALSE)
           result == IF new \in effect.table THEN new ELSE NoRow
       IN /\ gcTable' = effect.table
          /\ gcResult' = [gcResult EXCEPT ![c] = [row |-> result, created |-> created(result)]]
          /\ gcPc' = [gcPc EXCEPT ![c] =
                         IF result = NoRow /\ gcOp = "get_or_create" THEN "get" ELSE "done"]
    /\ gcNextId' = gcNextId + 1
    /\ UNCHANGED <<gcDecls, gcOp, gcKey, gcValue>>

\* the SELECT of get() of a coroutine is executed
GetReturns(c) ==
    /\ UNCHANGED gcOthers
    /\ gcPc[c] = "get"
    /\ \E row \in GetByKey(gcTable, GetOrCreateTarget.fields, [k |-> gcKey]) :
          gcResult' = [gcResult EXCEPT ![c].row = row]
    /\ gcPc' = [gcPc EXCEPT ![c] = "done"]
    /\ UNCHANGED <<gcDecls, gcOp, gcKey, gcTable, gcNextId, gcValue>>

NextGetOrCreate ==
    \/ \E c \in Callers : GetOrCreateCall(c)
    \/ \E c \in Callers : InsertReturns(c)
    \/ \E c \in Callers : GetReturns(c)

(***************************************************************************)
(* JOINED RELATIONS OF A SERIALIZER                                        *)
(* serialization/base_serializers.py                                       *)
(***************************************************************************)

MaxSerializedRows == 2

JoinRelations == {"author", "publisher"}
ForeignKeyValues == {NoneVal, 0, 1}

\* the declarations: some of the relations, each with a serializer that has
\* or has not joined or prefetched relations of its own
SerializerDeclarations ==
    UNION {[S -> BOOLEAN] : S \in SUBSET JoinRelations}

SerializedRowSets ==
    {rows \in SUBSET [JoinRelations -> ForeignKeyValues] : Cardinality(rows) <= MaxSerializedRows}

InitSerializer ==
    /\ szFields \in SerializerDeclarations
    /\ szRows \in SerializedRowSets
    /\ szPhase = "new"
    /\ szJoined = {}
    /\ szPending = {}
    /\ szSecondary = [r \in JoinRelations |-> 0]

IdleSerializer ==
    /\ szFields = <<>>
    /\ szRows = {}
    /\ szPhase = "new"
    /\ szJoined = {}
    /\ szPending = {}
    /\ szSecondary = [r \in JoinRelations |-> 0]

\* parse_fields: the joined relations and one flag for the whole serializer,
\* set when the serializer of any of them has relations of its own
parse_fields(fields) ==
    [join_models |-> DOMAIN fields,
     recursion_join_relations |-> \E field_name \in DOMAIN fields : fields[field_name]]

\* _serialize_common: the relations with a key that is not falsy in some row
RelationsToFetch(models_to_join, rows) ==
    {model_name \in models_to_join :
        \E obj \in rows : obj[model_name] # NoneVal /\ obj[model_name] # 0}

\* _serialize_queryset up to "await queryset": select_related with all the
\* joined relations unless recursion_join_relations is set
SerializeQuerySet ==
    /\ UNCHANGED szOthers
    /\ szPhase = "new"
    /\ LET parsed == parse_fields(szFields)
       IN szJoined' = IF parsed.join_models # {} /\ ~ parsed.recursion_join_relations
                      THEN parsed.join_models ELSE {}
    /\ szPhase' = "root"
    /\ UNCHANGED <<szFields, szRows, szPending, szSecondary>>

\* the root query returns; with recursion_join_relations _serialize_common
\* makes one secondary query for every joined relation that has keys
RootQueryReturns ==
    /\ UNCHANGED szOthers
    /\ szPhase = "root"
    /\ LET parsed == parse_fields(szFields)
           models_to_join == IF parsed.recursion_join_relations /\ szRows # {}
                             THEN parsed.join_models ELSE {}
           fetched == RelationsToFetch(models_to_join, szRows)
       IN /\ szPending' = fetched
          /\ szSecondary' = [r \in JoinRelations |->
                                IF r \in fetched THEN szSecondary[r] + 1 ELSE szSecondary[r]]
          /\ szPhase' = IF fetched = {} THEN "done" ELSE "secondary"
    /\ UNCHANGED <<szFields, szRows, szJoined>>

\* a secondary query returns and its rows are attached
SecondaryQueryReturns(r) ==
    /\ UNCHANGED szOthers
    /\ szPhase = "secondary"
    /\ r \in szPending
    /\ szPending' = szPending \ {r}
    /\ szPhase' = IF szPending = {r} THEN "done" ELSE "secondary"
    /\ UNCHANGED <<szFields, szRows, szJoined, szSecondary>>

NextSerializer ==
    \/ SerializeQuerySet
    \/ RootQueryReturns
    \/ \E r \in JoinRelations : SecondaryQueryReturns(r)

(***************************************************************************)
(* SPECIFICATIONS                                                          *)
(***************************************************************************)

PrefetchInit == InitPrefetch /\ IdleBulk /\ IdleUpsert /\ IdleRelation /\ IdlePaginate /\ IdleCondition /\ IdleQuerySet /\ IdleCommute /\ IdleRelationAttr /\ IdleTransaction /\ IdleSetFunction /\ IdleValuesDict /\ IdleUpdate /\ IdleTaskTransaction /\ IdleConnect /\ IdleGetOrCreate /\ IdleSerializer
SpecPrefetch == PrefetchInit /\ [][NextPrefetch]_vars

BulkInit == IdlePrefetch /\ InitBulk /\ IdleUpsert /\ IdleRelation /\ IdlePaginate /\ IdleCondition /\ IdleQuerySet /\ IdleCommute /\ IdleRelationAttr /\ IdleTransaction /\ IdleSetFunction /\ IdleValuesDict /\ IdleUpdate /\ IdleTaskTransaction /\ IdleConnect /\ IdleGetOrCreate /\ IdleSerializer
SpecBulk == BulkInit /\ [][NextBulk]_vars

UpsertInit ==
    /\ ON_TRANSACTION = [b \in Backends |-> 0]
    /\ IdlePrefetch /\ IdleBulk /\ InitUpsert /\ IdleRelation /\ IdlePaginate /\ IdleCondition /\ IdleQuerySet /\ IdleCommute /\ IdleRelationAttr /\ IdleTransaction /\ IdleSetFunction /\ IdleValuesDict /\ IdleUpdate /\ IdleTaskTransaction /\ IdleConnect /\ IdleGetOrCreate /\ IdleSerializer
SpecUpsert == UpsertInit /\ [][NextUpsert]_vars

RelationInit ==
    /\ ON_TRANSACTION = [b \in Backends |-> 0]
    /\ IdlePrefetch /\ IdleBulk /\ IdleUpsert /\ InitRelation /\ IdlePaginate /\ IdleCondition /\ IdleQuerySet /\ IdleCommute /\ IdleRelationAttr /\ IdleTransaction /\ IdleSetFunction /\ IdleValuesDict /\ IdleUpdate /\ IdleTaskTransaction /\ IdleConnect /\ IdleGetOrCreate /\ IdleSerializer
SpecRelation == RelationInit /\ [][NextRelation]_vars

PaginateInit ==
    /\ ON_TRANSACTION = [b \in Backends |-> 0]
    /\ IdlePrefetch /\ IdleBulk /\ IdleUpsert /\ IdleRelation /\ InitPaginate /\ IdleCondition /\ IdleQuerySet /\ IdleCommute /\ IdleRelationAttr /\ IdleTransaction /\ IdleSetFunction /\ IdleValuesDict /\ IdleUpdate /\ IdleTaskTransaction /\ IdleConnect /\ IdleGetOrCreate /\ IdleSerializer
SpecPaginate == PaginateInit /\ [][NextPaginate]_vars

ConditionInit ==
    /\ ON_TRANSACTION = [b \in Backends |-> 0]
    /\ IdlePrefetch /\ IdleBulk /\ IdleUpsert /\ IdleRelation /\ IdlePaginate /\ InitCondition /\ IdleQuerySet /\ IdleCommute /\ IdleRelationAttr /\ IdleTransaction /\ IdleSetFunction /\ IdleValuesDict /\ IdleUpdate /\ IdleTaskTransaction /\ IdleConnect /\ IdleGetOrCreate /\ IdleSerializer
SpecCondition == ConditionInit /\ [][NextCondition]_vars

QuerySetInit ==
    /\ ON_TRANSACTION = [b \in Backends |-> 0]
    /\ IdlePrefetch /\ IdleBulk /\ IdleUpsert /\ IdleRelation /\ IdlePaginate /\ IdleCondition /\ InitQuerySet /\ IdleCommute /\ IdleRelationAttr /\ IdleTransaction /\ IdleSetFunction /\ IdleValuesDict /\ IdleUpdate /\ IdleTaskTransaction /\ IdleConnect /\ IdleGetOrCreate /\ IdleSerializer
SpecQuerySet == QuerySetInit /\ [][NextQuerySet]_vars

CommuteInit ==
    /\ ON_TRANSACTION = [b \in Backends |-> 0]
    /\ IdlePrefetch /\ IdleBulk /\ IdleUpsert /\ IdleRelation /\ IdlePaginate /\ IdleCondition /\ IdleQuerySet /\ InitCommute /\ IdleRelationAttr /\ IdleTransaction /\ IdleSetFunction /\ IdleValuesDict /\ IdleUpdate /\ IdleTaskTransaction /\ IdleConnect /\ IdleGetOrCreate /\ IdleSerializer
SpecCommute == CommuteInit /\ [][NextCommute]_vars

RelationAttrInit ==
    /\ ON_TRANSACTION = [b \in Backends |-> 0]
    /\ IdlePrefetch /\ IdleBulk /\ IdleUpsert /\ IdleRelation /\ IdlePaginate /\ IdleCondition /\ IdleQuerySet /\ IdleCommute /\ InitRelationAttr /\ IdleTransaction /\ IdleSetFunction /\ IdleValuesDict /\ IdleUpdate /\ IdleTaskTransaction /\ IdleConnect /\ IdleGetOrCreate /\ IdleSerializer
SpecRelationAttr == RelationAttrInit /\ [][NextRelationAttr]_vars

TransactionInit ==
    /\ ON_TRANSACTION = [b \in Backends |-> 0]
    /\ IdlePrefetch /\ IdleBulk /\ IdleUpsert /\ IdleRelation /\ IdlePaginate /\ IdleCondition /\ IdleQuerySet /\ IdleCommute /\ IdleRelationAttr /\ InitTransaction /\ IdleSetFunction /\ IdleValuesDict /\ IdleUpdate /\ IdleTaskTransaction /\ IdleConnect /\ IdleGetOrCreate /\ IdleSerializer
SpecTransaction == TransactionInit /\ [][NextTransaction]_vars

SetFunctionInit ==
    /\ ON_TRANSACTION = [b \in Backends |-> 0]
    /\ IdlePrefetch /\ IdleBulk /\ IdleUpsert /\ IdleRelation /\ IdlePaginate /\ IdleCondition /\ IdleQuerySet /\ IdleCommute /\ IdleRelationAttr /\ IdleTransaction /\ InitSetFunction /\ IdleValuesDict /\ IdleUpdate /\ IdleTaskTransaction /\ IdleConnect /\ IdleGetOrCreate /\ IdleSerializer
SpecSetFunction == SetFunctionInit /\ [][NextSetFunction]_vars

ValuesDictInit ==
    /\ ON_TRANSACTION = [b \in Backends |-> 0]
    /\ IdlePrefetch /\ IdleBulk /\ IdleUpsert /\ IdleRelation /\ IdlePaginate /\ IdleCondition /\ IdleQuerySet /\ IdleCommute /\ IdleRelationAttr /\ IdleTransaction /\ IdleSetFunction /\ InitValuesDict /\ IdleUpdate /\ IdleTaskTransaction /\ IdleConnect /\ IdleGetOrCreate /\ IdleSerializer
SpecValuesDict == ValuesDictInit /\ [][NextValuesDict]_vars

UpdateInit ==
    /\ ON_TRANSACTION = [b \in Backends |-> 0]
    /\ IdlePrefetch /\ IdleBulk /\ IdleUpsert /\ IdleRelation /\ IdlePaginate /\ IdleCondition /\ IdleQuerySet /\ IdleCommute /\ IdleRelationAttr /\ IdleTransaction /\ IdleSetFunction /\ IdleValuesDict /\ InitUpdate /\ IdleTaskTransaction /\ IdleConnect /\ IdleGetOrCreate /\ IdleSerializer
SpecUpdate == UpdateInit /\ [][NextUpdate]_vars

TaskTransactionInit ==
    /\ ON_TRANSACTION = [b \in Backends |-> 0]
    /\ IdlePrefetch /\ IdleBulk /\ IdleUpsert /\ IdleRelation /\ IdlePaginate /\ IdleCondition /\ IdleQuerySet /\ IdleCommute /\ IdleRelationAttr /\ IdleTransaction /\ IdleSetFunction /\ IdleValuesDict /\ IdleUpdate /\ InitTaskTransaction /\ IdleConnect /\ IdleGetOrCreate /\ IdleSerializer
SpecTaskTransaction == TaskTransactionInit /\ [][NextTaskTransaction]_vars

ConnectInit ==
    /\ ON_TRANSACTION = [b \in Backends |-> 0]
    /\ IdlePrefetch /\ IdleBulk /\ IdleUpsert /\ IdleRelation /\ IdlePaginate /\ IdleCondition /\ IdleQuerySet /\ IdleCommute /\ IdleRelationAttr /\ IdleTransaction /\ IdleSetFunction /\ IdleValuesDict /\ IdleUpdate /\ IdleTaskTransaction /\ InitConnect /\ IdleGetOrCreate /\ IdleSerializer
SpecConnect == ConnectInit /\ [][NextConnect]_vars

GetOrCreateInit ==
    /\ ON_TRANSACTION = [b \in Backends |-> 0]
    /\ IdlePrefetch /\ IdleBulk /\ IdleUpsert /\ IdleRelation /\ IdlePaginate /\ IdleCondition /\ IdleQuerySet /\ IdleCommute /\ IdleRelationAttr /\ IdleTransaction /\ IdleSetFunction /\ IdleValuesDict /\ IdleUpdate /\ IdleTaskTransaction /\ IdleConnect /\ InitGetOrCreate /\ IdleSerializer
SpecGetOrCreate == GetOrCreateInit /\ [][NextGetOrCreate]_vars

SerializerInit ==
    /\ ON_TRANSACTION = [b \in Backends |-> 0]
    /\ IdlePrefetch /\ IdleBulk /\ IdleUpsert /\ IdleRelation /\ IdlePaginate /\ IdleCondition /\ IdleQuerySet /\ IdleCommute /\ IdleRelationAttr /\ IdleTransaction /\ IdleSetFunction /\ IdleValuesDict /\ IdleUpdate /\ IdleTaskTransaction /\ IdleConnect /\ IdleGetOrCreate /\ InitSerializer
SpecSerializer == SerializerInit /\ [][NextSerializer]_vars

(***************************************************************************)
(* CLAIMS                                                                  *)
(***************************************************************************)

\* the non-None key values of the root result
NonNullRootKeys == {pfRoots[i] : i \in 1..Len(pfRoots)} \ {NoneVal}

\* the target rows of relation r whose foreign key is the key of root row i
MatchingRows(i, r) ==
    IF pfRoots[i] = NoneVal THEN {}
    ELSE {row.id : row \in {t \in pfTargets[r] : t.fk = pfRoots[i]}}

\* the relation attribute of root row i holds exactly the matching rows, each once
AttrIsExact(i, r) ==
    /\ pfAttr[i][r].isset
    /\ Range(pfAttr[i][r].val) = MatchingRows(i, r)
    /\ Len(pfAttr[i][r].val) = Cardinality(MatchingRows(i, r))

PrefetchIsExact ==
    \A r \in Rels :
        /\ pfSent[r] = 1
        /\ pfSentKeys[r] = NonNullRootKeys
        /\ \A i \in 1..Len(pfRoots) : AttrIsExact(i, r)

\* C1 as stated: whatever the number K of root rows, a finished
\* QuerySet prefetch has sent exactly one secondary query per relation, filtered
\* by the root keys, and every root row holds exactly its matching rows
C1_OneQueryForAnyK ==
    (pfPath = "queryset" /\ pfPhase = "done") => PrefetchIsExact

\* C1 amended: for K >= 1 root rows a finished QuerySet prefetch has sent
\* exactly one secondary query per relation, filtered by the set of non-None root
\* keys, and every root row holds exactly the target rows whose foreign key is
\* its key (the empty list for no match or a None key); for K = 0 no secondary
\* query is sent
C1_OneQueryPerRelation ==
    (pfPath = "queryset" /\ pfPhase = "done") =>
        IF Len(pfRoots) >= 1 THEN PrefetchIsExact
        ELSE \A r \in Rels : pfSent[r] = 0

\* C1 witness: two root rows, one with a None key holding the empty list and
\* one holding two stitched rows, after one secondary query
C1_Witness ==
    /\ pfPath = "queryset"
    /\ pfPhase = "done"
    /\ Len(pfRoots) = 2
    /\ pfRoots[1] = NoneVal
    /\ pfAttr[1]["r1"].val = <<>>
    /\ Len(pfAttr[2]["r1"].val) = 2
    /\ pfSent["r1"] = 1

InFlight == {r \in Rels : pfTask[r] = "inflight"}

\* C2: while the root backend is on a transaction at most one secondary
\* query of the prefetch is in flight: a query is sent only after the one
\* before it has returned
C2_SequentialOnTransaction ==
    is_on_transaction(ON_TRANSACTION, RootPool) =>
        /\ Cardinality(InFlight) <= 1
        /\ \A r \in Rels : pfTask[r] = "inflight" =>
               \A q \in Rels : RelIndex(q) < RelIndex(r) => pfTask[q] \in {"done", "none"}

\* C2 witness: on a transaction, the second secondary query is in flight after
\* the first has returned
C2_Witness ==
    /\ is_on_transaction(ON_TRANSACTION, RootPool)
    /\ pfTask["r1"] = "done"
    /\ pfTask["r2"] = "inflight"

\* C2, the concurrent half: with no transaction open two secondary queries are
\* in flight together (a reachable state)
C2_ConcurrentOutsideTransaction ==
    /\ ~ is_any_backend_on_transaction(ON_TRANSACTION)
    /\ Cardinality(InFlight) = 2

\* C8 as stated: after a secondary query of a prefetch has failed and the
\* prefetch has raised, no result of another secondary query is stitched onto
\* the root rows
C8_NoStitchAfterFailure == pfLate = {}

BatchCount(n, size) == (n + size - 1) \div size

\* C3: a finished bulk_insert of N > 0 objects with batch size B has sent
\* ceil(N/B) statements, statement i carries the input positions (i-1)*B+1 ..
\* min(i*B, N) (counted from 1), every position is in exactly one statement,
\* and the key generated for the row inserted from input j is on input j
C3_BatchesAndWriteBack ==
    (bkOp = "bulk_insert" /\ bkPhase = "done" /\ Len(bkData) > 0) =>
        /\ Len(bkStmts) = BatchCount(Len(bkData), bkBatch)
        /\ \A i \in 1..Len(bkStmts) :
              /\ bkStmts[i].first = (i - 1) * bkBatch + 1
              /\ bkStmts[i].last = Min(i * bkBatch, Len(bkData))
        /\ \A j \in 1..Len(bkData) :
              Cardinality({i \in 1..Len(bkStmts) :
                              j \in bkStmts[i].first .. bkStmts[i].last}) = 1
        /\ bkRefresh =>
              \A j \in 1..Len(bkData) :
                  \E row \in bkTable : /\ row.src = j
                                       /\ row.k = bkData[j].k
                                       /\ bkObjIds[j] = row.id

\* C3 witness: three objects in batches of two, two statements, keys written back
C3_Witness ==
    /\ bkOp = "bulk_insert"
    /\ bkPhase = "done"
    /\ bkRefresh
    /\ Len(bkData) = 3
    /\ bkBatch = 2
    /\ Len(bkStmts) = 2
    /\ bkObjIds[3] # NoneVal
    /\ bkObjIds[1] # bkObjIds[3]

\* C4: every statement of a bulk call runs inside the transaction of
\* the call; once a statement has failed no later statement is sent, the call
\* ends raising, and when it has raised the table is what it was when the
\* transaction was entered
C4_FailedBatchAbortsAndRollsBack ==
    /\ bkPhase \in {"tx", "inflight", "unwind"} => ON_TRANSACTION[RootPool] > 0
    /\ bkFailedAt # 0 =>
          /\ bkPhase \in {"unwind", "raised"}
          /\ Len(bkStmts) = bkFailedAt
    /\ bkPhase = "raised" =>
          /\ bkFailedAt # 0
          /\ bkTable = bkSnapshot

\* C4 witness: the second statement failed after the first had written rows,
\* the call has raised and the table is back to what it was
C4_Witness ==
    /\ bkPhase = "raised"
    /\ bkFailedAt = 2
    /\ bkNextId > 2
    /\ bkTable = bkSnapshot

\* ---- C5 ----
C5_NewRow == [id |-> upNextId - 1, k |-> upCall.k, v |-> upCall.v]

\* two update_or_create calls in a row, both completed, with the same values
\* in the conflict-target columns
C5_TwoCalls ==
    /\ upCalls >= 2
    /\ upPhase = "idle"
    /\ upOutcome = "ok" /\ upPrev.outcome = "ok"
    /\ upCall.op = "update_or_create" /\ upPrev.call.op = "update_or_create"
    /\ upTarget.fields # <<PkColumn>>
    /\ \A c \in Range(upTarget.fields) : upCall[c] = upPrev.call[c]

C5_NonKeyColumns == {"k", "v"} \ Range(upTarget.fields)

C5_NonKeyDiffers == \E c \in C5_NonKeyColumns : upCall[c] # upPrev.call[c]

C5_RowsWithKey(table) ==
    {row \in table : \A c \in Range(upTarget.fields) : row[c] = upCall[c]}

\* the rows the second call's row conflicts with in the conflict target's index
C5_Hit(table) ==
    {row \in table : \E index \in Arbiters(upDecls, upTarget) : Collide(row, C5_NewRow, index)}

\* C5 as stated: after two update_or_create calls with the same key values and
\* different non-key values there is exactly one row with those key values, its
\* non-key columns hold the values of the second call, and its primary key and
\* key columns are what they were before the second call.
C5_SecondCallWins ==
    (C5_TwoCalls /\ C5_NonKeyDiffers) =>
        /\ Cardinality(C5_RowsWithKey(upTable)) = 1
        /\ \A row \in C5_RowsWithKey(upTable) :
              /\ \A c \in C5_NonKeyColumns : row[c] = upCall[c]
              /\ \E old \in upPrev.table :
                    /\ old.id = row.id
                    /\ \A c \in Range(upTarget.fields) : old[c] = row[c]

\* C5 (amended): when the second call's row conflicts with an existing row in
\* the conflict target's unique index (non-null key values, both rows covered
\* by a partial index), no row is added; that row keeps its primary key and
\* every key column without an onupdate default; every non-key column with
\* neither a named set function nor an onupdate default holds the value of the
\* second call; and, unless a key column has an onupdate default, it stays the
\* only row with those key values in the index.
C5_SecondCallUpdatesTheRow ==
    (C5_TwoCalls /\ C5_Hit(upPrev.table) # {}) =>
        LET defaults == get_table_onupdate_defaults(upOnUpdate)
        IN /\ Cardinality(upTable) = Cardinality(upPrev.table)
           /\ \A old \in C5_Hit(upPrev.table) :
                 \E row \in upTable :
                    /\ row.id = old.id
                    /\ \A c \in Range(upTarget.fields) :
                          (c \notin defaults) => row[c] = old[c]
                    /\ \A c \in C5_NonKeyColumns :
                          (c \notin defaults /\ set_func_name(upCall.setfn, c) = "") =>
                              row[c] = upCall[c]
           /\ (Range(upTarget.fields) \cap defaults = {}) =>
                 Cardinality(C5_Hit(upTable)) = 1

C5_Witness ==
    /\ C5_TwoCalls
    /\ C5_Hit(upPrev.table) # {}
    /\ C5_NonKeyDiffers
    /\ upCall.setfn = "" /\ ~ upOnUpdate
    /\ \E row \in upTable : row.k = upCall.k /\ row.v = upCall.v /\ row.id < upNextId - 1

\* ---- C6 ----
\* C6 as stated: a call without a conflict target uses the primary key when no
\* unique constraint is declared, the declared one when there is exactly one,
\* and fails with the error naming the candidates, before any statement is
\* sent, when more than one is declared (every unique column and every unique
\* index counting as one).
C6_ConflictTargetDerivation ==
    (upCalls > 0) =>
        CASE Cardinality(upDecls) = 0 ->
                upTarget.kind = "ok" /\ upTarget.fields = <<PkColumn>>
          [] Cardinality(upDecls) = 1 ->
                /\ upTarget.kind = "ok"
                /\ \E d \in upDecls : upTarget.fields = d.cols /\ upTarget.where = d.where
          [] OTHER ->
                /\ upTarget.kind = "error"
                /\ upTarget.candidates = {d.cols : d \in upDecls}
                /\ upOutcome = "ambiguous"
                /\ upSent = 0


\* ---- C7 ----
C7_ForeignKeysTo(to) == {i \in DOMAIN fkForeignKeys : fkForeignKeys[i].table = to}

\* C7 as stated: the call returns the column pair only when exactly one foreign
\* key points at to_table, fails with the no-relation error when none does and
\* with the ambiguous-relation error when two or more do; all calls for one
\* pair of tables have the same outcome.
C7_ExactlyOneOrError ==
    (fkCalls > 0) =>
        /\ CASE Cardinality(C7_ForeignKeysTo(fkLast.to)) = 0 ->
                   fkLast.outcome = "AttributeError"
             [] Cardinality(C7_ForeignKeysTo(fkLast.to)) = 1 ->
                   /\ fkLast.outcome = "ok"
                   /\ \E i \in C7_ForeignKeysTo(fkLast.to) :
                         fkLast.pair = <<fkForeignKeys[i].parent, fkForeignKeys[i].column>>
             [] OTHER -> fkLast.outcome \notin {"ok", "AttributeError"}
        /\ \A t \in ToTables : Cardinality(fkSeen[t]) <= 1


\* ---- C9 ----
\* the rows on the travelled side of the starting cursor
C9_TravelledSide == PaginationFilter(pgRows, pgStart, pgIsIncrease)

\* C9 as stated: when paging from the starting cursor has come to its end (a
\* page with next cursor None), every row on the travelled side of the
\* starting cursor has been returned on at least one page.
C9_NoRowSkipped ==
    (pgPhase = "returned" /\ pgNext = NoneVal) => C9_TravelledSide \subseteq pgSeen

\* ---- C10 ----
C10_LeftOutIsLast == (~ pgOrderDesc /\ pgIsIncrease) \/ (pgOrderDesc /\ ~ pgIsIncrease)

\* C10: the query returns at most limit + 1 rows; when it returns more than
\* limit, the page is exactly limit of them in query order and the next cursor
\* is the field value of the row left out, the last row for asc+increasing and
\* desc+decreasing, the first row otherwise; when it returns at most limit
\* rows, the page is all of them and the next cursor is None.
C10_PageAndNextCursor ==
    (pgPhase = "returned") =>
        /\ Len(pgResults) <= pgLimit + 1
        /\ IF Len(pgResults) > pgLimit
           THEN /\ Len(pgPage) = pgLimit
                /\ IF C10_LeftOutIsLast
                   THEN /\ pgPage = SubSeq(pgResults, 1, pgLimit)
                        /\ pgNext = pgResults[pgLimit + 1].f
                   ELSE /\ pgPage = SubSeq(pgResults, 2, pgLimit + 1)
                        /\ pgNext = pgResults[1].f
           ELSE /\ pgPage = pgResults
                /\ pgNext = NoneVal

C10_Witness ==
    /\ pgPhase = "returned"
    /\ Len(pgResults) = pgLimit + 1
    /\ pgLimit = MaxLimit
    /\ ~ C10_LeftOutIsLast
    /\ pgNext = pgResults[1].f
    /\ pgResults[1].f # pgResults[Len(pgResults)].f


\* ---- C11 ----
RECURSIVE C11_PairsOf(_)
C11_PairsOf(condition) ==
    condition.fields_values
    \cup UNION {C11_PairsOf(condition.conditions[i]) : i \in DOMAIN condition.conditions}

C11_BothExecuted == cdFilterQs.phase = "executed" /\ cdExcludeQs.phase = "executed"

\* rows whose compared columns are all non-null
C11_NonNullRows ==
    {row \in CondRows : \A p \in C11_PairsOf(cdCondition) : row[p.field] # NoneVal}

\* a null comparison value outside eq / neq / is / is_not
C11_NullComparisonValue ==
    \E p \in C11_PairsOf(cdCondition) :
        p.value = NoneVal /\ p.suffix \notin {"", "eq", "neq", "is", "is_not"}

\* C11 as stated: exclude(X) returns the rows for which the negation of the
\* predicate of filter(X) holds, filter(X) and exclude(X) share no row, and
\* the rows with non-null compared columns are all in one of the two.
C11_ExcludeIsNegation ==
    C11_BothExecuted =>
        /\ cdExcludeQs.rows = {row \in CondRows : parse_expression(cdCondition, row) = "F"}
        /\ cdFilterQs.rows \cap cdExcludeQs.rows = {}
        /\ C11_NonNullRows \subseteq (cdFilterQs.rows \cup cdExcludeQs.rows)

\* C11 (amended): the same, the partition holding when in addition no
\* comparison value other than that of eq / neq / is / is_not is null.
C11_ExcludeIsNegationNonNull ==
    C11_BothExecuted =>
        /\ cdExcludeQs.rows = {row \in CondRows : parse_expression(cdCondition, row) = "F"}
        /\ cdFilterQs.rows \cap cdExcludeQs.rows = {}
        /\ (~ C11_NullComparisonValue) =>
              C11_NonNullRows \subseteq (cdFilterQs.rows \cup cdExcludeQs.rows)

C11_Witness ==
    /\ C11_BothExecuted
    /\ ~ C11_NullComparisonValue
    /\ cdCondition.type = "or"
    /\ cdCondition.conditions # <<>>
    /\ cdCondition.fields_values # {}
    /\ cdFilterQs.rows # {}
    /\ cdExcludeQs.rows # {}
    /\ CondRows \ (cdFilterQs.rows \cup cdExcludeQs.rows) # {}

\* ---- C17 ----
C17_ListedSuffixes ==
    { "eq", "neq", "gt", "ge", "lt", "le", "in", "not_in", "is", "is_not", "like", "ilike",
      "not_like", "not_ilike", "startswith", "endswith", "contains", "concat" }

RECURSIVE C17_Pairs(_)
C17_Pairs(condition) ==
    condition.fields_values
    \cup UNION {C17_Pairs(condition.conditions[i]) : i \in DOMAIN condition.conditions}

\* C17 as stated: a call whose condition carries a suffix outside the listed
\* ones fails at the call with the unsupported-operator error, no statement
\* having been sent for it, and no call fails because a suffix that parsing
\* accepted cannot be evaluated.
C17_UnknownSuffixRejected ==
    \A q \in {cdFilterQs, cdExcludeQs} :
        (q.phase # "new") =>
            /\ (\E p \in C17_Pairs(cdCondition) : p.suffix \notin C17_ListedSuffixes \cup {""}) =>
                  (q.phase = "failed" /\ q.error = "ValueError" /\ q.rows = {})
            /\ q.error # "KeyError"

\* ---- C13 ----
\* C13 as stated: a builder call made once the QuerySet has been compiled
\* fails and leaves the QuerySet as it was.
C13_NoBuilderCallAfterCompile ==
    (qsLast.outcome # "none" /\ qsBefore.phase # "building") =>
        (qsLast.outcome # "ok" /\ qs = qsBefore.qs)

\* ---- C14 ----
\* C14 as stated: no relation is both joined and prefetched on one QuerySet.
C14_JoinedAndPrefetchedDisjoint ==
    qs.joined_models \cap qs.prefetch_field_columns = {}

\* ---- C15 ----
C15_ShapingCalls ==
    {"values_list", "values_dict", "aggregate", "select_related", "count", "exists"}

\* C15 as stated: once count() or exists() has been called, a later
\* projection-shaping call is rejected and the projection stays COUNT(*) /
\* TRUE with single-row, flat, raw output.
C15_ShapeIsTerminal ==
    (qsShape # "" /\ qsPhase # "executed") =>
        /\ qs.query.columns = <<Label(IF qsShape = "count" THEN "cnt" ELSE "true")>>
        /\ qs.fetch_one /\ qs.flat /\ qs.return_raw
        /\ (qsBefore.shape # "" /\ qsLast.call.name \in C15_ShapingCalls) =>
              qsLast.outcome # "ok"

\* ---- C16 ----
\* C16 as stated: select_related with a path that is already joined changes
\* nothing.
C16_JoinedPathIsNoOp ==
    (/\ qsLast.call.name = "select_related"
     /\ qsLast.outcome = "ok"
     /\ \A path \in qsLast.call.paths : Join(path, ".") \in qsBefore.qs.joined_models) =>
        qs = qsBefore.qs

\* ---- C12 ----
C12_BothExecuted == \A i \in Instances : cmPhase[i] = "executed"

\* C12: two QuerySets that got the same filter / exclude calls, the same
\* order_by calls in the same relative order and the same limit call, in
\* whatever interleaving, end with the same conjunction of conditions, the
\* same ordering list and the same limit, and their statements return the
\* same rows in the same order (up to the order of rows that tie).
C12_CallOrderDoesNotMatter ==
    C12_BothExecuted =>
        /\ Range(cmQs["first"].query.where) = Range(cmQs["second"].query.where)
        /\ Range(cmQs["first"].query.where) =
              Range(QuerySetObject.where_conditions) \cup cmPlan.filters
        /\ cmQs["first"].query.order_by = cmQs["second"].query.order_by
        /\ Len(cmQs["first"].query.order_by) = Len(cmPlan.order_bys)
        /\ cmQs["first"].query.limit = cmQs["second"].query.limit
        /\ cmQs["first"].query.limit = cmPlan.limit
        /\ cmResults["first"] = cmResults["second"]

C12_Witness ==
    /\ C12_BothExecuted
    /\ cmQs["first"].where_conditions # cmQs["second"].where_conditions
    /\ Cardinality(cmPlan.filters) = MaxFilters
    /\ Len(cmPlan.order_bys) = MaxOrderBys
    /\ cmPlan.order_bys[1] # cmPlan.order_bys[MaxOrderBys]
    /\ \E s \in cmResults["first"] : Len(s) = 2

\* ---- C18 ----
C18_ReadRelation == Len(raLast.item) = 1 /\ raLast.item[1] \in RelatedNames

C18_ReadUndeclared == Len(raLast.item) = 1 /\ raLast.item[1] \notin RelatedNames \cup {"id"}

\* C18: reading a declared relation attribute raises the "hasn't fetched
\* yet" AttributeError as long as no await of its <name>__qs queryset has
\* completed, and that error differs (in its message) from the one a read
\* of an undeclared name raises; once such an await has completed the read
\* returns the fetched value.
C18_NotFetchedUntilAwaited ==
    /\ (C18_ReadRelation /\ ~ raLast.completed.done) =>
          /\ raLast.outcome.raised = "AttributeError"
          /\ raLast.outcome.message = "hasn't fetched yet"
    /\ (C18_ReadRelation /\ raLast.completed.done) =>
          /\ raLast.outcome.raised = ""
          /\ raLast.outcome.value = [kind |-> "value", value |-> raLast.completed.result]
    /\ C18_ReadUndeclared =>
          /\ raLast.outcome.raised = "AttributeError"
          /\ raLast.outcome.message = "has no attribute"

C18_Witness ==
    /\ C18_ReadRelation
    /\ raLast.item = <<"author">>
    /\ raLast.completed.done
    /\ raLast.outcome.raised = ""
    /\ raCompleted["tags"].done = FALSE
    /\ raDict[<<"tags", "">>].kind = "queryset"

C18_WitnessNotFetched ==
    /\ C18_ReadRelation
    /\ ~ raLast.completed.done
    /\ raLast.item[1] \in raAwaiting

\* ---- C19 ----
\* C19: is_on_transaction() of a backend is true exactly while at least one
\* transaction opened on that backend is open.
C19_TrueExactlyWhileOpen ==
    \A b \in Backends : is_on_transaction(ON_TRANSACTION, b) <=> (txOpen[b] > 0)

\* the second half of C19: a step on one backend leaves is_on_transaction()
\* of every other backend as it was
C19_OtherBackendUntouched ==
    txLast.op # "" =>
        \A b \in Backends \ {txLast.backend} :
            is_on_transaction(ON_TRANSACTION, b) = txLast.before[b]

\* ---- C20 ----
C20_StatementDone == sfPhase = "done" /\ sfOutcome = "ok"

\* the input rows that match a row of the table
C20_Matching(row) == {sfCall.data[i] : i \in DOMAIN sfCall.data} \cap {d \in InputRows : d.id = row.id}

\* what the claim gives column v of a matched row
C20_Expected(existing, incoming) ==
    CASE sfCall.setfn = "+" ->
            IF incoming = NoneVal THEN NoneVal
            ELSE (IF existing = NoneVal THEN 0 ELSE existing) + incoming
      [] sfCall.setfn = "eq_not_null" -> IF incoming # NoneVal THEN incoming ELSE existing
      [] OTHER -> incoming

\* what the statement may give column v of a matched row: with
\* onUpdateWins a column with an onupdate default receives that default in
\* update_or_create and bulk_update_or_create
C20_NewValue(existing, incoming, onUpdateWins) ==
    IF onUpdateWins /\ sfCall.op # "bulk_update" /\ sfOnUpdate
    THEN OnUpdateArg
    ELSE C20_Expected(existing, incoming)

\* the rows of the table before the statement keep their key, an unmatched
\* row is unchanged, a matched row has k = incoming k and v = the new value
C20_RowsUpdated(onUpdateWins) ==
    \A row \in sfBefore :
        \E after \in sfTable :
            /\ after.id = row.id
            /\ \A other \in sfTable : (other.id = row.id) => other = after
            /\ IF C20_Matching(row) = {} THEN after = row
               ELSE \E d \in C20_Matching(row) :
                       /\ after.k = d.k
                       /\ after.v = C20_NewValue(row.v, d.v, onUpdateWins)

C20_WitnessIncrement ==
    /\ C20_StatementDone
    /\ sfCall.op = "bulk_update"
    /\ sfCall.setfn = "+"
    /\ Len(sfCall.data) = MaxInputRows
    /\ sfOnUpdate
    /\ \E row \in sfBefore :
          /\ row.v = NoneVal
          /\ \E after \in sfTable : after.id = row.id /\ after.v = 2

\* ---- C25 ----
\* C25: after any sequence of entries and exits, exits whose commit or
\* rollback raises included, the counter of a backend equals the number of
\* its open transactions and is never negative, so is_on_transaction() is
\* false once every transaction has exited.
C25_CounterEqualsOpen ==
    \A b \in Backends :
        /\ ON_TRANSACTION[b] = txOpen[b]
        /\ ON_TRANSACTION[b] >= 0
        /\ (txOpen[b] = 0) => ~ is_on_transaction(ON_TRANSACTION, b)

\* ---- C28 ----
\* C28: every next cursor that is not None lies strictly further along the
\* direction of travel than the start value its page was requested with, so
\* that paging with the returned cursors comes to an end.
C28_CursorAdvances ==
    (pgPhase = "returned" /\ pgNext # NoneVal /\ pgCursor # NoneVal) =>
        IF pgIsIncrease THEN pgNext > pgCursor ELSE pgNext < pgCursor

\* ---- C30 ----
\* C30: when the serializer has resolved the relations through secondary
\* queries, the relation attribute of every root row holds the target rows
\* whose foreign key equals the row's key, the key 0 included; only a None
\* key yields the default value.
C30_FalsyKeyTakesPart ==
    (pfPath = "serializer" /\ pfPhase = "done") =>
        \A i \in 1..Len(pfRoots) : \A r \in Rels :
            /\ pfAttr[i][r].isset
            /\ Range(pfAttr[i][r].val) = MatchingRows(i, r)

\* ---- C21 ----
\* the key values of the result rows, column by column
C21_KeyValues(row) == [i \in DOMAIN vdCall.key_fields.names |-> row[vdCall.key_fields.names[i]]]

\* C21: the dictionary has exactly one entry per distinct key value among
\* the result rows, and the entry of a key holds the last row in result
\* order that has this key.
C21_LastRowWins ==
    (vdPhase = "returned") =>
        /\ \A n \in DOMAIN vdResults :
              \E i \in DOMAIN vdParsed : vdParsed[i].key.vals = C21_KeyValues(vdResults[n])
        /\ \A i, j \in DOMAIN vdParsed : (i # j) => vdParsed[i].key # vdParsed[j].key
        /\ \A i \in DOMAIN vdParsed :
              LET n == vdParsed[i].row
              IN /\ n \in DOMAIN vdResults
                 /\ vdParsed[i].key.vals = C21_KeyValues(vdResults[n])
                 /\ \A m \in DOMAIN vdResults :
                       (C21_KeyValues(vdResults[m]) = vdParsed[i].key.vals) => m <= n
                 /\ \A c \in DOMAIN vdParsed[i].value.row :
                       vdParsed[i].value.row[c] = vdResults[n][c]

C21_Witness ==
    /\ vdPhase = "returned"
    /\ Len(vdResults) = MaxResultRows
    /\ Len(vdParsed) = 2
    /\ vdCall.key_fields.tuple
    /\ vdParsed[1].row = MaxResultRows
    /\ vdParsed[1].value.row # [c \in DOMAIN vdParsed[1].value.row |-> vdResults[1][c]]
    /\ C21_KeyValues(vdResults[1]) = vdParsed[1].key.vals

\* ---- C22 ----
C22_StatementDone == udPhase \in {"returned", "checked"}

\* row matches X: the condition of the call is true for it
C22_Matches(row) == parse_expression(udCall.condition, row) = "T"

\* the rows of the table after the statement, given the value the update
\* sets column a to: the rows matching X are deleted, or updated in column
\* a only, every other row is as it was
C22_Expected(value) ==
    IF udCall.op = "delete" THEN {row \in udBefore : ~ C22_Matches(row)}
    ELSE {IF C22_Matches(row) THEN [id |-> row.id, a |-> value, b |-> row.b] ELSE row :
             row \in udBefore}

\* C22 as stated: delete removes exactly the rows matching X, update sets
\* the column to the value of the call on exactly the rows matching X,
\* through a model instance's update as well; after the delete
\* filter(X).exists() is falsy.
C22_ExactlyTheMatchingRows ==
    /\ C22_StatementDone => udTable = C22_Expected(udCall.value)
    /\ (udPhase = "checked" /\ udCall.op = "delete") => ~ udExists

\* C22, amended: the same, except that a model instance's update of a
\* column that has an onupdate default sets the column to that default.
C22_ExactlyTheMatchingRowsUnlessOnUpdate ==
    /\ C22_StatementDone =>
          udTable = C22_Expected(IF udCall.op = "instance_update" /\ udOnUpdate
                                 THEN OnUpdateArg ELSE udCall.value)
    /\ (udPhase = "checked" /\ udCall.op = "delete") => ~ udExists

C22_Witness ==
    /\ udPhase = "checked"
    /\ udCall.op = "delete"
    /\ Cardinality(udBefore) = 2
    /\ Cardinality(udTable) = 1
    /\ \E row \in udTable : row.a = NoneVal
    /\ ~ udExists

C22_WitnessUpdate ==
    /\ udPhase = "returned"
    /\ udCall.op = "update"
    /\ udOnUpdate
    /\ udCall.value = 2
    /\ \E row \in udBefore : C22_Matches(row) /\ row.a # 2
    /\ \E row \in udBefore : ~ C22_Matches(row) /\ row \in udTable

\* ---- C26 ----
\* C26, first half: a task that is inside a transaction of a backend sees
\* is_on_transaction() true.
C26_OwnTransactionSeen == (ctRead.task # "" /\ ctRead.open > 0) => ctRead.value

\* C26: is_on_transaction() is the state of the calling task: true inside a
\* transaction of the task, and not made true by a transaction that only
\* another, concurrently running task has opened.
C26_StateOfCurrentTask == ctRead.task # "" => (ctRead.value <=> ctRead.open > 0)

C27_WitnessAllSent ==
    /\ \A c \in Coroutines : cnPc[c] = "done"
    /\ Cardinality(cnSent) = 3
    /\ cnConnects = 1
    /\ cnLock.waiters = <<>>
    /\ \E s \in cnSent : s.op = "transaction"
    /\ \E s \in cnSent : s.op = "fetch_all"

\* ---- C29 ----
\* C29: a builder call that fails leaves the QuerySet as it was before the
\* call: conditions, query, columns, annotations, joined paths, prefetch map
\* and output flags.
C29_FailedCallChangesNothing ==
    qsLast.outcome \notin {"ok", "none"} => qs = qsBefore.qs

\* ---- C24 ----
C24_BothDone == \A c \in Callers : gcPc[c] = "done"

\* one call created the row, both calls of get_or_create return the one
\* stored row with the key, and the table holds one row with the key
C24_OneRowOneCreator ==
    /\ Cardinality({c \in Callers : gcResult[c].created}) = 1
    /\ gcOp = "get_or_create" =>
          \E row \in gcTable : \A c \in Callers : gcResult[c].row = row
    /\ Cardinality({row \in gcTable : row.k = gcKey}) = 1

\* C24 as stated: for every interleaving of two concurrent calls with the
\* same unique-constraint values on a table without such a row, exactly one
\* call reports created, both return the same stored row, never None, and
\* one row with the values exists afterwards.
C24_ExactlyOneCreates == C24_BothDone => C24_OneRowOneCreator

\* the unique index covers the rows of both calls: the key is not null and,
\* for a partial index, both rows satisfy its WHERE part
C24_Covered ==
    /\ gcKey # NoneVal
    /\ \A c \in Callers, index \in gcDecls :
          Satisfies([id |-> 0, k |-> gcKey, v |-> gcValue[c]], index.where)

\* C24, amended: the same for calls whose key values are not null and whose
\* rows are covered by the unique index of the conflict target.
C24_ExactlyOneCreatesWhenCovered ==
    (C24_BothDone /\ C24_Covered) => C24_OneRowOneCreator

C24_Witness ==
    /\ C24_BothDone
    /\ C24_Covered
    /\ gcOp = "get_or_create"
    /\ gcValue["c1"] # gcValue["c2"]
    /\ gcResult["c1"].created
    /\ ~ gcResult["c2"].created
    /\ gcResult["c2"].row = gcResult["c1"].row
    /\ gcTable = {gcResult["c1"].row}

C24_WitnessPartialIndex ==
    /\ C24_BothDone
    /\ C24_Covered
    /\ gcOp = "create_or_nothing"
    /\ \E index \in gcDecls : index.where # "none"
    /\ gcResult["c2"].created
    /\ ~ gcResult["c1"].created

\* ---- C23 ----
\* C23: when a serializer serializes a QuerySet, a joined relation without
\* relations beneath it is in the select_related of the root query and gets
\* no secondary query, whatever the other fields are; a joined relation with
\* relations beneath it is not joined and gets one secondary query (when a
\* row has a key for it).
C23_LeafJoinedNestedBatched ==
    szPhase # "new" =>
        \A r \in DOMAIN szFields :
            IF ~ szFields[r]
            THEN r \in szJoined /\ szSecondary[r] = 0
            ELSE /\ r \notin szJoined
                 /\ szSecondary[r] <= 1
                 /\ (szPhase = "done" /\ RelationsToFetch({r}, szRows) # {}) =>
                       szSecondary[r] = 1

====
